---- MODULE Spec2Model ----
(***************************************************************************)
(* Quantitative signal engine of Market_Trader (src/FINAL).                *)
(*                                                                         *)
(* The engine is a set of pure functions; each is an operator here and is  *)
(* exercised by a specification whose Init draws the arguments of one call *)
(* and whose action applies the function and stores what it returns.       *)
(*                                                                         *)
(* Number representation (the code computes in binary64):                  *)
(*   prices (strike, lastPrice, bid, ask, underlying)  integer cents       *)
(*   impliedVolatility, delta                          hundredths          *)
(*   probabilities and scores                          1/SCALE             *)
(*   NaN / None                                        the value NaN       *)
(* Divisions are floor divisions of the scaled integers.  The guards       *)
(* "+ 1e-9" that the code adds to denominators are below the resolution of *)
(* these units for a non-zero denominator and are modelled by what they    *)
(* do for a zero one (DivEps).                                             *)
(***************************************************************************)
EXTENDS Integers, Sequences, FiniteSets, TLC

VARIABLES
    pc,            \* "ready" before the call of the specification, "done" after
    pop_in,        \* arguments of calculate_pop
    pop_out,       \* what calculations.calculate_pop returned
    pop_v1_out,    \* what TradeBot_V1.calculate_pop returned
    rank_in,       \* arguments of rank_options_logic
    ranked,        \* the table rank_options_logic returned, a sequence of rows
    trend_fn,      \* which trend aggregator is called
    trend_in,      \* its input: trend_data, or the four downloaded frames
    trend_out,     \* the (label, confidence, rationale) it returned
    single_in,     \* arguments of analyze_single_option_details
    single_out,    \* what analyze_single_option_details returned
    pivot_in,      \* arguments of find_pivots
    pivot_out,     \* what each copy of find_pivots returned
    ind_in,        \* the frame given to the indicator functions
    ind_out,       \* what the indicator functions returned
    heap,          \* the objects of a session: object id -> value
    caller,        \* the caller's objects as they were before the first call
    history,       \* the calls made so far: function, argument, result
    last_bounds,   \* the volume and open-interest bounds of the latest ranking
    pnl_in,        \* arguments of calculate_option_pnl and calculate_breakeven
    pnl_out        \* what they returned

popVars == <<pop_in, pop_out, pop_v1_out>>

rankVars == <<rank_in, ranked>>

trendVars == <<trend_fn, trend_in, trend_out>>

singleVars == <<single_in, single_out>>

pivotVars == <<pivot_in, pivot_out>>

indVars == <<ind_in, ind_out>>

engineVars == <<heap, caller, history, last_bounds>>

pnlVars == <<pnl_in, pnl_out>>

restVars == <<singleVars, pivotVars, indVars, engineVars, pnlVars>>

vars == <<pc, popVars, rankVars, trendVars, restVars>>

----------------------------------------------------------------------------
\* Representation

NaN == -999999

\* The call raised instead of returning.
RAISED == -888888

SCALE == 10000

IsNaN(x) == x = NaN

Abs(x) == IF x < 0 THEN -x ELSE x

Max2(a, b) == IF a >= b THEN a ELSE b

Min2(a, b) == IF a <= b THEN a ELSE b

\* numpy / pandas clip(lo, hi)
Clip(x, lo, hi) == Max2(lo, Min2(x, hi))

\* Largest r with r*r <= n, by bisection of lo..hi: np.sqrt on the scaled integers.
RECURSIVE ISqrtBetween(_, _, _)
ISqrtBetween(n, lo, hi) ==
    IF lo >= hi THEN lo
    ELSE LET mid == (lo + hi + 1) \div 2
         IN  IF mid * mid <= n THEN ISqrtBetween(n, mid, hi)
             ELSE ISqrtBetween(n, lo, mid - 1)

ISqrt(n) == ISqrtBetween(n, 0, 40000)

\* np.log(num / den) in 1/SCALE, for num, den > 0:
\* ln(x) = 2 atanh(z), z = (x-1)/(x+1), by its series up to z^9.
\* Accurate to about 2/SCALE for 1/3 <= num/den <= 3.
NpLog(num, den) ==
    LET a  == Abs(num - den)
        z  == (a * SCALE) \div (num + den)
        z2 == (z * z) \div SCALE
        z3 == (z2 * z) \div SCALE
        z5 == (z3 * z2) \div SCALE
        z7 == (z5 * z2) \div SCALE
        z9 == (z7 * z2) \div SCALE
        m  == 2 * (z + z3 \div 3 + z5 \div 5 + z7 \div 7 + z9 \div 9)
    IN  IF num >= den THEN m ELSE -m

\* scipy.stats.norm.cdf(x), x and the result in 1/SCALE, by the polynomial
\* approximation 0.5 + x(4.4 - x)/10 on [0, 2.2], 0.99 on (2.2, 2.6), 1 from
\* 2.6 on, and by symmetry below 0 (absolute error below 0.005).
NormCdfPos(x) ==
    IF x <= 22000 THEN 5000 + (x * (44000 - x)) \div 100000
    ELSE IF x < 26000 THEN 9900
    ELSE SCALE

norm_cdf(x) == IF x >= 0 THEN NormCdfPos(x) ELSE SCALE - NormCdfPos(-x)

----------------------------------------------------------------------------
\* functions/options_logic.py: single-leg helpers

calculate_breakeven(option_type, strike_price, premium) ==
    IF option_type = "call" THEN strike_price + premium
    ELSE IF option_type = "put" THEN strike_price - premium
    ELSE NaN

calculate_intrinsic_value(option_type, strike_price, current_price) ==
    IF option_type = "call" THEN Max2(0, current_price - strike_price)
    ELSE IF option_type = "put" THEN Max2(0, strike_price - current_price)
    ELSE 0

calculate_time_value(last_price, intrinsic_value) ==
    Max2(0, last_price - intrinsic_value)

----------------------------------------------------------------------------
\* Probability of profit

\* Risk-free rates of the two copies, in 1/SCALE per year.
RATE_CALC == 500

RATE_V1 == 100

DAYS_PER_YEAR == 365

\* sigma * sqrt(t) in 1/SCALE: implied_volatility * np.sqrt(dte / 365.0).
\* sqrt(t) is taken in 1/1000.
SigmaSqrtT(implied_volatility, dte) ==
    (implied_volatility * ISqrt((dte * 1000000) \div DAYS_PER_YEAR)) \div 10

\* d2 of the log-normal model for the reference price ref, in 1/SCALE:
\*   d1 = (ln(S/ref) + (r - q + 0.5 sigma^2) t) / (sigma sqrt t),  q = 0
\*   d2 = d1 - sigma sqrt t
D2(ref, current_price, implied_volatility, dte, rate) ==
    LET sst   == SigmaSqrtT(implied_volatility, dte)
        drift == ((rate + (implied_volatility * implied_volatility) \div 2) * dte)
                     \div DAYS_PER_YEAR
        d1    == ((NpLog(current_price, ref) + drift) * SCALE) \div sst
    IN  d1 - sst

\* functions/calculations.py calculate_pop.  A NaN argument passes the
\* comparisons of line 279 (every comparison with NaN is False) and comes
\* out as NaN at line 307.
calculate_pop(option_type, strike_price, premium, current_price, implied_volatility, dte) ==
    IF \E x \in {strike_price, premium, current_price, implied_volatility, dte} : IsNaN(x)
    THEN NaN
    ELSE IF dte <= 0 \/ implied_volatility <= 0 \/ current_price <= 0 \/ strike_price <= 0
    THEN NaN
    ELSE IF SigmaSqrtT(implied_volatility, dte) = 0 THEN NaN
    ELSE LET d2 == D2(strike_price, current_price, implied_volatility, dte, RATE_CALC)
         IN  IF option_type = "call" THEN Clip(norm_cdf(d2), 0, SCALE)
             ELSE IF option_type = "put" THEN Clip(norm_cdf(-d2), 0, SCALE)
             ELSE NaN

\* TradeBot_V1.py calculate_pop: the reference price is the breakeven, the
\* rate is 1%, and only dte and implied_volatility are guarded.  np.log
\* returns -inf at 0 and NaN below 0 (with a warning); a division by a zero
\* breakeven gives +-inf or NaN on numpy scalars and raises ZeroDivisionError
\* on Python floats.  numpy tells which kind the arguments are.
calculate_pop_V1(option_type, strike_price, premium, current_price, implied_volatility, dte, numpy) ==
    IF (~IsNaN(dte) /\ dte <= 0) \/ (~IsNaN(implied_volatility) /\ implied_volatility <= 0)
    THEN NaN
    ELSE IF option_type \notin {"call", "put"} THEN NaN
    ELSE IF \E x \in {strike_price, premium, current_price, implied_volatility, dte} : IsNaN(x)
    THEN NaN
    ELSE LET breakeven_price == calculate_breakeven(option_type, strike_price, premium)
             up == IF option_type = "call" THEN SCALE ELSE 0
         IN  IF breakeven_price = 0
             THEN IF ~numpy THEN RAISED
                  ELSE IF current_price > 0 THEN up
                  ELSE NaN
             ELSE IF current_price = 0 THEN SCALE - up
             ELSE IF (current_price < 0) # (breakeven_price < 0) THEN NaN
             ELSE LET d2 == D2(Abs(breakeven_price), Abs(current_price),
                               implied_volatility, dte, RATE_V1)
                  IN  IF option_type = "call" THEN norm_cdf(d2) ELSE norm_cdf(-d2)

OptionTypes == {"call", "put"}

\* Values of the variables a specification does not use.
NoCall == [option_type |-> "none"]

PopIdle == pop_in = NoCall /\ pop_out = NaN /\ pop_v1_out = NaN

RankIdle == rank_in = NoCall /\ ranked = <<>>

TrendIdle == trend_fn = "none" /\ trend_in = <<>> /\ trend_out = NoCall

SingleIdle == single_in = NoCall /\ single_out = NoCall

PivotIdle == pivot_in = NoCall /\ pivot_out = NoCall

IndIdle == ind_in = NoCall /\ ind_out = NoCall

EngineIdle == heap = NoCall /\ caller = NoCall /\ history = <<>> /\ last_bounds = NoCall

PnlIdle == pnl_in = NoCall /\ pnl_out = NoCall

RestIdle == SingleIdle /\ PivotIdle /\ IndIdle /\ EngineIdle /\ PnlIdle

----------------------------------------------------------------------------
\* functions/options_logic.py rank_options_logic
\*
\* A chain is a sequence of rows [strike, lastPrice, bid, ask, volume,
\* openInterest, impliedVolatility, delta]; a row's position is its index
\* label idx.  A chain without a delta column is one whose deltas are all NaN
\* (lines 48-49).  Units of the score columns: pop_score, norm_volume,
\* norm_oi, spread_score, time_value_ratio, breakeven_score, delta_score in
\* 1/SCALE; liquidity_score and value_score in 1/(10 SCALE); Overall_Score in
\* 1/(1000 SCALE).  spread_pct is kept as the exact fraction num/den percent.

LIQ_ONE == 10 * SCALE

SCORE_ONE == 1000 * SCALE

required_cols ==
    {"strike", "lastPrice", "bid", "ask", "volume", "openInterest", "impliedVolatility"}

\* line 70-71: mid_price = (bid + ask) / 2; spread_pct = (ask - bid) / mid_price * 100
spread_pct(row) == [num |-> 200 * (row.ask - row.bid), den |-> row.bid + row.ask]

min_volume == 10

min_oi == 50

\* PassesFilters with volume > min_volume in place of volume >= min_volume.
PassesFilters_StrictVolume(row) ==
    /\ \A c \in required_cols : ~IsNaN(row[c])
    /\ row.lastPrice > 1 /\ row.bid > 0 /\ row.ask > 0
    /\ row.impliedVolatility > 0 /\ row.impliedVolatility < 500
    /\ row.volume > min_volume /\ row.openInterest >= min_oi
    /\ spread_pct(row).num <= 20 * spread_pct(row).den

\* lines 53-72: a row is kept iff it passes dropna and the four filters.
\* lastPrice > 0.01 is lastPrice > 1 cent, impliedVolatility < 5.0 is < 500.
PassesFilters(row) ==
    /\ \A c \in required_cols : ~IsNaN(row[c])
    /\ row.lastPrice > 1 /\ row.bid > 0 /\ row.ask > 0
    /\ row.impliedVolatility > 0 /\ row.impliedVolatility < 500
    /\ row.volume >= min_volume /\ row.openInterest >= min_oi
    /\ spread_pct(row).num <= 20 * spread_pct(row).den

\* x.fillna(v); line 89 calls it in place on the POP column, which replaces
\* the NaN of the frame when pandas runs without copy-on-write.
fillna(x, v) == IF IsNaN(x) THEN v ELSE x

\* breakeven_score without the clip of line 143.
breakeven_score_NoClip(breakeven, current_price) ==
    LET dist == Abs(breakeven - current_price)
        off  == Abs(20 * dist - current_price)
    IN  IF current_price = 0
        THEN (IF dist = 0 THEN SCALE \div 2 ELSE -SCALE)
        ELSE SCALE - ((off * 100) \div (2 * current_price)) * 100

\* lines 106-108: abs((breakeven - current) / (current + 1e-9) * 100) and
\* lines 141-143: clip(1 - abs(distance - 5) / 10, 0, 1).
\* |distance - 5| / 10 = |20 |breakeven - current| - current| / (2 current);
\* for current = 0 the distance is 0 when breakeven = 0 and beyond every
\* bound otherwise.
breakeven_score(breakeven, current_price) ==
    LET dist == Abs(breakeven - current_price)
        off  == Abs(20 * dist - current_price)
    IN  IF current_price = 0
        THEN (IF dist = 0 THEN SCALE \div 2 ELSE 0)
        ELSE IF off >= 2 * current_price THEN 0
        ELSE Clip(SCALE - (off * SCALE) \div (2 * current_price), 0, SCALE)

\* lines 125-126
spread_score(row) ==
    Clip(SCALE - ((spread_pct(row).num \div 20) * SCALE) \div spread_pct(row).den, 0, SCALE)

\* lines 121-122: (x - min) / (max - min + 1e-9) if max != min else 0.5
norm(x, lo, hi) ==
    IF hi - lo # 0 THEN ((x - lo) * SCALE) \div (hi - lo) ELSE SCALE \div 2

\* lines 151-162
delta_score(option_type, delta) ==
    LET x == IF option_type = "call" THEN delta ELSE Abs(delta)
    IN  IF 20 <= x /\ x <= 80 THEN SCALE - (Abs(x - 50) * SCALE) \div 50
        ELSE SCALE \div 5

\* lines 173-177: pd.cut(bins=[0, 0.4, 0.6, 0.75, 1.0]) with its defaults
\* right=True, include_lowest=False; a value in no bin gets NaN.
Quality_Tier(score) ==
    IF 0 < score /\ 10 * score <= 4 * SCORE_ONE THEN "Poor"
    ELSE IF 10 * score > 4 * SCORE_ONE /\ 10 * score <= 6 * SCORE_ONE THEN "Fair"
    ELSE IF 10 * score > 6 * SCORE_ONE /\ 100 * score <= 75 * SCORE_ONE THEN "Good"
    ELSE IF 100 * score > 75 * SCORE_ONE /\ score <= SCORE_ONE THEN "Excellent"
    ELSE "NaN"

\* lines 78-170 for one surviving row; lo/hi are the volume and open-interest
\* ranges of the surviving rows (lines 116-119).
ScoreRow(row, option_type, current_price, dte, vlo, vhi, olo, ohi) ==
    LET POP        == fillna(calculate_pop(option_type, row.strike, row.lastPrice,
                                           current_price, row.impliedVolatility, dte), 0)
        intrinsic  == calculate_intrinsic_value(option_type, row.strike, current_price)
        time_value == calculate_time_value(row.lastPrice, intrinsic)
        breakeven  == calculate_breakeven(option_type, row.strike, row.lastPrice)
        nv         == norm(row.volume, vlo, vhi)
        no         == norm(row.openInterest, olo, ohi)
        ss         == spread_score(row)
        liq        == 4 * nv + 4 * no + 2 * ss
        tvr        == Clip((time_value * SCALE) \div row.lastPrice, 0, SCALE)
        bes        == breakeven_score(breakeven, current_price)
        val        == 4 * tvr + 6 * bes
        delta      == fillna(row.delta, 50)
        ds         == delta_score(option_type, delta)
        overall    == 400 * POP + 25 * liq + 20 * val + 150 * ds
    IN  [idx |-> row.idx, strike |-> row.strike, lastPrice |-> row.lastPrice,
         bid |-> row.bid, ask |-> row.ask, volume |-> row.volume,
         openInterest |-> row.openInterest,
         impliedVolatility |-> row.impliedVolatility, delta |-> delta,
         spread_pct |-> spread_pct(row), POP |-> POP,
         intrinsic_value |-> intrinsic, time_value |-> time_value,
         breakeven |-> breakeven, pop_score |-> POP,
         norm_volume |-> nv, norm_oi |-> no, spread_score |-> ss,
         liquidity_score |-> liq, time_value_ratio |-> tvr,
         breakeven_score |-> bes, value_score |-> val, delta_score |-> ds,
         Overall_Score |-> overall, Quality_Tier |-> Quality_Tier(overall)]

SetMax(S) == CHOOSE x \in S : \A y \in S : y <= x

SetMin(S) == CHOOSE x \in S : \A y \in S : x <= y

\* The chain with each row's index label.
Indexed(chain) ==
    [i \in 1..Len(chain) |->
        [idx |-> i, strike |-> chain[i].strike, lastPrice |-> chain[i].lastPrice,
         bid |-> chain[i].bid, ask |-> chain[i].ask, volume |-> chain[i].volume,
         openInterest |-> chain[i].openInterest,
         impliedVolatility |-> chain[i].impliedVolatility, delta |-> chain[i].delta]]

\* The bounds of lines 116-119 kept from the ranking before, when there was
\* one, in place of those of df.
volume_bounds_Cached(df, previous) ==
    IF previous # NoCall THEN previous
    ELSE [max_volume |-> SetMax({df[i].volume : i \in 1..Len(df)}),
          min_volume_val |-> SetMin({df[i].volume : i \in 1..Len(df)}),
          max_oi |-> SetMax({df[i].openInterest : i \in 1..Len(df)}),
          min_oi_val |-> SetMin({df[i].openInterest : i \in 1..Len(df)})]

\* lines 116-119: max_volume, min_volume_val, max_oi and min_oi_val are
\* locals computed from the filtered rows df of this invocation; previous,
\* the values they had in the invocation before, is not read.
volume_bounds(df, previous) ==
    [max_volume |-> SetMax({df[i].volume : i \in 1..Len(df)}),
     min_volume_val |-> SetMin({df[i].volume : i \in 1..Len(df)}),
     max_oi |-> SetMax({df[i].openInterest : i \in 1..Len(df)}),
     min_oi_val |-> SetMin({df[i].openInterest : i \in 1..Len(df)})]

\* lines 78-170: the filtered rows df scored with the bounds b.
ScoredWith(df, b, option_type, current_price, dte) ==
    [i \in 1..Len(df) |->
        ScoreRow(df[i], option_type, current_price, dte,
                 b.min_volume_val, b.max_volume, b.min_oi_val, b.max_oi)]

\* lines 45-170: the surviving rows, scored, in the order of the chain.
ScoredRows(chain, option_type, current_price, dte) ==
    LET df == SelectSeq(Indexed(chain), PassesFilters)
    IN  IF df = <<>> THEN <<>>
        ELSE ScoredWith(df, volume_bounds(df, NoCall), option_type, current_price, dte)

\* line 179: df.sort_values("Overall_Score", ascending=False) with the default
\* kind="quicksort", which is not a stable sort: the result is some
\* arrangement of the rows with non-increasing scores, rows of equal score in
\* an order the sort does not promise.
sort_values(df) ==
    LET n == Len(df)
    IN  {[i \in 1..n |-> df[p[i]]] :
            p \in {q \in [1..n -> 1..n] :
                     /\ \A i, j \in 1..n : i # j => q[i] # q[j]
                     /\ \A i, j \in 1..n :
                          i < j => df[q[i]].Overall_Score >= df[q[j]].Overall_Score}}

rank_options_logic(df_original, option_type, current_price_for_rank, dte_for_rank) ==
    sort_values(ScoredRows(df_original, option_type, current_price_for_rank, dte_for_rank))

----------------------------------------------------------------------------
\* Specification SpecRank: one call of rank_options_logic.

MaxRows == 2

Base ==
    [strike |-> 10000, lastPrice |-> 2000, bid |-> 2000, ask |-> 2000,
     volume |-> 10, openInterest |-> 50, impliedVolatility |-> 30, delta |-> NaN]

\* Rows that differ from Base in one column, one quote or one liquidity pair.
RowSet ==
    {Base}
    \cup {[Base EXCEPT !.strike = v] : v \in {NaN, 0, 9000}}
    \cup {[Base EXCEPT !.lastPrice = v] : v \in {NaN, 1, 5000}}
    \cup {[Base EXCEPT !.bid = q[1], !.ask = q[2]] :
             q \in {<<NaN, 2000>>, <<2000, NaN>>, <<0, 2000>>, <<2000, 0>>,
                    <<1800, 2200>>, <<1750, 2250>>, <<2200, 1800>>}}
    \cup {[Base EXCEPT !.volume = l[1], !.openInterest = l[2]] :
             l \in {<<NaN, 50>>, <<10, NaN>>, <<5, 50>>, <<10, 49>>,
                    <<500, 50>>, <<500, 1000>>}}
    \cup {[Base EXCEPT !.impliedVolatility = v] : v \in {NaN, 0, 500}}
    \cup {[Base EXCEPT !.delta = v] : v \in {35, 90}}

Chains(n) == [1..n -> RowSet]

RankPrices == {0, 10000, 20000}

RankDtes == {0, 7}

InitRank ==
    /\ pc = "ready"
    /\ \E n \in 0..MaxRows :
           rank_in \in [chain : Chains(n), option_type : OptionTypes,
                        current_price : RankPrices, dte : RankDtes]
    /\ ranked = <<>>
    /\ PopIdle
    /\ TrendIdle
    /\ RestIdle

CallRank ==
    /\ pc = "ready"
    /\ ranked' \in rank_options_logic(rank_in.chain, rank_in.option_type,
                                      rank_in.current_price, rank_in.dte)
    /\ pc' = "done"
    /\ UNCHANGED <<rank_in, popVars, trendVars, restVars>>

NextRank == CallRank

SpecRank == InitRank /\ [][NextRank]_vars

----------------------------------------------------------------------------
\* functions/calculations.py analyze_market_trend
\*
\* trend_data is a dict: a sequence of entries [key, kind, closes] with
\* distinct keys, in insertion order.  kind is "Series" for a pandas Series
\* and "list" for any other sized container; a close is a number, NaN, or
\* NONNUM for a value that is no int, float or np.number.
\* Weights and scores are in tenths.  A confidence is in 1/100 of a percent.

NONNUM == -777777

CONF_MAX == 10000

weights == [i \in {"5m", "15m", "30m", "1h"} |-> CASE i = "5m" -> 4 [] i = "15m" -> 3
                                                  [] i = "30m" -> 2 [] i = "1h" -> 1]

\* The code adds the weights in binary64.  A binary64 value near k/10 is the
\* pair [k, e] standing for k/10 + e * 2^-58 / 5.  WeightErr is e for the
\* literals 0.4, 0.3, 0.2, 0.1.
WeightErr(w) == CASE w = 4 -> 32 [] w = 3 -> -16 [] w = 2 -> 16 [] w = 1 -> 8

\* The unit in the last place of a value near k/10, k >= 1, in 2^-58 / 5.
Ulp(k, e) ==
    CASE k = 1 -> 20
      [] k = 2 -> 40
      [] k \in {3, 4} -> 80
      [] k = 5 -> (IF e < 0 THEN 80 ELSE 160)
      [] k \in 6..9 -> 160
      [] OTHER -> (IF k = 10 /\ e < 0 THEN 160 ELSE 320)

\* 2^57 modulo 2u, for u a unit in the last place.
Pow57Mod(u) == CASE u = 20 -> 32 [] u = 40 -> 32 [] u = 80 -> 32 [] u = 160 -> 192
                 [] OTHER -> 512

\* Round-to-nearest-even of the exact value [k, e], k >= 1.
RoundPos(k, e) ==
    LET u  == Ulp(k, e)
        t2 == (k * Pow57Mod(u) + e) % (2 * u)
        r  == t2 % u
    IN  IF r = 0 THEN [k |-> k, e |-> e]
        ELSE IF 2 * r < u THEN [k |-> k, e |-> e - r]
        ELSE IF 2 * r > u THEN [k |-> k, e |-> e + u - r]
        ELSE IF t2 >= u THEN [k |-> k, e |-> e + u - r]
        ELSE [k |-> k, e |-> e - r]

\* a + b in binary64; a sum near 0 of two values near +-k/10 is exact.
FloatAdd(a, b) ==
    LET k == a.k + b.k
        e == a.e + b.e
    IN  IF k = 0 THEN [k |-> 0, e |-> e]
        ELSE IF k > 0 THEN RoundPos(k, e)
        ELSE LET m == RoundPos(-k, -e) IN [k |-> -m.k, e |-> -m.e]

\* a > b for binary64 values
FloatGt(a, b) == a.k > b.k \/ (a.k = b.k /\ a.e > b.e)

FloatOf(w) == [k |-> w, e |-> WeightErr(w)]

\* lines 49-82: what one interval contributes.
Classify(entry) ==
    IF entry.kind # "Series" \/ Len(entry.closes) < 2 THEN "Insufficient"
    ELSE LET first_price == entry.closes[1]
             last_price  == entry.closes[Len(entry.closes)]
             change      == last_price - first_price
         IN  IF first_price = NONNUM \/ last_price = NONNUM THEN "Non-numeric"
             ELSE IF IsNaN(first_price) \/ IsNaN(last_price) THEN "Flat"
             ELSE IF first_price = 0 THEN "Flat"
             ELSE IF first_price > 0 /\ 1000 * change > first_price THEN "UP"
             ELSE IF first_price > 0 /\ 1000 * change < -first_price THEN "DOWN"
             ELSE IF first_price < 0 /\ 1000 * change < first_price THEN "UP"
             ELSE IF first_price < 0 /\ 1000 * change > -first_price THEN "DOWN"
             ELSE "Flat"

interval_score(tag) == IF tag = "UP" THEN 1 ELSE IF tag = "DOWN" THEN -1 ELSE 0

Skipped(tag) == tag \in {"Insufficient", "Non-numeric"}

\* lines 46-85: the loop over valid_intervals, from entry n on.
RECURSIVE TrendLoop(_, _, _, _)
TrendLoop(valid, n, trend_score, reasons) ==
    IF n > Len(valid) THEN [trend_score |-> trend_score, reasons |-> reasons]
    ELSE LET tag == Classify(valid[n])
             w   == weights[valid[n].key]
             add == IF interval_score(tag) = 1 THEN FloatOf(w)
                    ELSE [k |-> -w, e |-> -WeightErr(w)]
         IN  TrendLoop(valid, n + 1,
                       IF Skipped(tag) \/ interval_score(tag) = 0 THEN trend_score
                       ELSE FloatAdd(trend_score, add),
                       Append(reasons, [interval |-> valid[n].key, tag |-> tag]))

RECURSIVE SumSeq(_)
SumSeq(q) == IF q = <<>> THEN 0 ELSE Head(q) + SumSeq(Tail(q))

InWeights(entry) == entry.key \in DOMAIN weights

\* MarketConfidence without the abs of line 100.
MarketConfidence_NoAbs(score_tenths, max_possible_score) ==
    IF max_possible_score = 0 THEN 0
    ELSE Min2((score_tenths * CONF_MAX) \div max_possible_score, CONF_MAX)

\* lines 97-100: min(abs(trend_score) / max_possible_score * 100, 100), or 0
\* when max_possible_score is 0.
MarketConfidence(score_tenths, max_possible_score) ==
    IF max_possible_score = 0 THEN 0
    ELSE Min2((Abs(score_tenths) * CONF_MAX) \div max_possible_score, CONF_MAX)

LongEnough(entry) == Len(entry.closes) >= 2

analyze_market_trend(trend_data) ==
    IF trend_data = <<>>
    THEN [label |-> "Neutral", confidence |-> 0,
          reasons |-> <<[interval |-> "none", tag |-> "Not enough data"]>>]
    ELSE LET valid_intervals == SelectSeq(trend_data, InWeights)
             loop  == TrendLoop(valid_intervals, 1, [k |-> 0, e |-> 0], <<>>)
             score == loop.trend_score
             used  == SelectSeq(valid_intervals, LongEnough)
             max_possible_score == SumSeq([i \in 1..Len(used) |-> weights[used[i].key]])
         IN  [label |-> IF FloatGt(score, FloatOf(1)) THEN "Bullish"
                        ELSE IF FloatGt([k |-> -1, e |-> -WeightErr(1)], score) THEN "Bearish"
                        ELSE "Neutral",
              confidence |-> MarketConfidence(score.k, max_possible_score),
              reasons |-> loop.reasons]

----------------------------------------------------------------------------
\* display/ui_components.py analyze_trend_properly
\*
\* The input is the four frames yf.download returned, each the sequence of
\* its Close column, or a failed download.

\* The resolutions in the order of lines 491-594:
\* [name, minimum bars, bars back to the reference close, threshold in 1/100
\*  of a percent, whether the close is also compared with the mean of the last
\*  `bars` closes, weight in tenths]
Resolutions ==
    << [name |-> "Daily",  bars |-> 3, back |-> 2, threshold |-> 50, sma |-> TRUE,  weight |-> 4],
       [name |-> "Hourly", bars |-> 6, back |-> 6, threshold |-> 30, sma |-> TRUE,  weight |-> 3],
       [name |-> "30min",  bars |-> 4, back |-> 4, threshold |-> 20, sma |-> FALSE, weight |-> 2],
       [name |-> "15min",  bars |-> 4, back |-> 4, threshold |-> 15, sma |-> FALSE, weight |-> 1] >>

LastBars(closes, n) == SubSeq(closes, Len(closes) - n + 1, Len(closes))

\* One resolution: "skip" when the frame is empty or too short, "raise" when
\* the reference close is 0 (ZeroDivisionError in the percent change), else
\* "UP", "DOWN" or "FLAT" for the signal 1, -1 or 0.
ResolutionSignal(res, closes) ==
    IF Len(closes) < res.bars THEN "skip"
    ELSE LET current == closes[Len(closes)]
             prev    == closes[Len(closes) - res.back + 1]
             total   == SumSeq(LastBars(closes, res.bars))
             above   == ~res.sma \/ res.bars * current > total
             below   == ~res.sma \/ res.bars * current < total
         IN  IF prev = 0 THEN "raise"
             ELSE IF above /\ 10000 * (current - prev) > res.threshold * prev THEN "UP"
             ELSE IF below /\ 10000 * (current - prev) < -(res.threshold * prev) THEN "DOWN"
             ELSE "FLAT"

ErrorVerdict ==
    [label |-> "Neutral", confidence |-> 0,
     reasons |-> <<[interval |-> "none", tag |-> "Error"]>>]

analyze_trend_properly(download_ok, frames) ==
    LET sig(i)  == ResolutionSignal(Resolutions[i], frames[i])
        taken   == SelectSeq(<<1, 2, 3, 4>>, LAMBDA i : sig(i) # "skip")
        signals == [j \in 1..Len(taken) |-> interval_score(sig(taken[j]))]
        wts     == [j \in 1..Len(taken) |-> Resolutions[taken[j]].weight]
        details == [j \in 1..Len(taken) |->
                       [interval |-> Resolutions[taken[j]].name,
                        tag |-> sig(taken[j])]]
        num     == SumSeq([j \in 1..Len(taken) |-> signals[j] * wts[j]])
        den     == SumSeq(wts)
    IN  IF ~download_ok \/ \E i \in 1..4 : sig(i) = "raise" THEN ErrorVerdict
        ELSE IF taken = <<>>
        THEN [label |-> "Neutral", confidence |-> 0,
              reasons |-> <<[interval |-> "none", tag |-> "Insufficient"]>>]
        ELSE [label |-> IF 100 * num > 15 * den THEN "Bullish"
                        ELSE IF 100 * num < -(15 * den) THEN "Bearish"
                        ELSE "Neutral",
              confidence |-> (Abs(num) * CONF_MAX) \div den,
              reasons |-> details]

----------------------------------------------------------------------------
\* Specification SpecTrend: one call of analyze_market_trend or of
\* analyze_trend_properly.

MaxSeriesLen == 2

MaxBars == 6

\* Closes that are all prev except the last one.
Bars(n, prev, last) == [i \in 1..n |-> IF i = n THEN last ELSE prev]

\* First and last close of a series: up, down, flat, a first close of 0, a
\* first close of NaN, and closes that are not numbers.
SeriesMoves == {<<1000, 1020>>, <<1020, 1000>>, <<1000, 1000>>, <<0, 1000>>,
                <<NaN, 1000>>, <<NONNUM, NONNUM>>}

SeriesSet == {Bars(n, m[1], m[2]) : n \in 0..MaxSeriesLen, m \in SeriesMoves}

\* What a key of trend_data can hold; "absent" is a key that is not present.
TrendValues ==
    {[kind |-> "absent", closes |-> <<>>]}
    \cup {[kind |-> "Series", closes |-> c] : c \in SeriesSet}
    \cup {[kind |-> "list", closes |-> <<1000, 1020>>]}

KeyOrders == {<<"5m", "15m", "30m", "1h">>, <<"1h", "1d", "15m", "5m">>}

Present(entry) == entry.kind # "absent"

\* The dict with the keys of one order, each absent or holding a value.
TrendDict(order, v) ==
    SelectSeq([i \in 1..4 |-> [key |-> order[i], kind |-> v[i].kind, closes |-> v[i].closes]],
              Present)

Moves == {<<1000, 1020>>, <<1000, 980>>, <<1000, 1002>>, <<0, 1000>>}

\* Frame lengths: none, or one of the four longest.
FrameLens == {0} \cup {n \in 1..MaxBars : n >= MaxBars - 3}

FrameSet == {Bars(n, m[1], m[2]) : n \in FrameLens, m \in Moves}

InitTrend ==
    /\ pc = "ready"
    /\ \/ /\ trend_fn = "analyze_market_trend"
          /\ \E order \in KeyOrders, v \in [1..4 -> TrendValues] :
                 trend_in = TrendDict(order, v)
       \/ trend_fn = "analyze_trend_properly" /\ trend_in \in [1..4 -> FrameSet]
       \/ trend_fn = "analyze_trend_properly (download failed)" /\ trend_in = <<>>
    /\ trend_out = NoCall
    /\ PopIdle
    /\ RankIdle
    /\ RestIdle

CallMarketTrend ==
    /\ pc = "ready"
    /\ trend_fn = "analyze_market_trend"
    /\ trend_out' = analyze_market_trend(trend_in)
    /\ pc' = "done"
    /\ UNCHANGED <<trend_fn, trend_in, popVars, rankVars, restVars>>

CallTrendProperly ==
    /\ pc = "ready"
    /\ trend_fn # "analyze_market_trend"
    /\ trend_out' = analyze_trend_properly(trend_fn = "analyze_trend_properly",
                                           IF trend_in = <<>> THEN [i \in 1..4 |-> <<>>]
                                           ELSE trend_in)
    /\ pc' = "done"
    /\ UNCHANGED <<trend_fn, trend_in, popVars, rankVars, restVars>>

NextTrend == CallMarketTrend \/ CallTrendProperly

SpecTrend == InitTrend /\ [][NextTrend]_vars

----------------------------------------------------------------------------
\* Specification SpecPop: one call of calculate_pop in each copy.

PopTypes == OptionTypes \cup {"straddle"}

PopStrikes == {NaN, 0, 9000, 10000}

PopPremiums == {0, 2000, 10000}

PopPrices == {NaN, 0, 10000, 12000}

PopVols == {NaN, 0, 30}

PopDtes == {NaN, 0, 30}

PopInputs ==
    [option_type : PopTypes, strike_price : PopStrikes, premium : PopPremiums,
     current_price : PopPrices, implied_volatility : PopVols, dte : PopDtes,
     numpy : BOOLEAN]

InitPop ==
    /\ pc = "ready"
    /\ pop_in \in PopInputs
    /\ pop_out = NaN
    /\ pop_v1_out = NaN
    /\ RankIdle
    /\ TrendIdle
    /\ RestIdle

CallPop ==
    /\ pc = "ready"
    /\ pop_out' = calculate_pop(pop_in.option_type, pop_in.strike_price, pop_in.premium,
                                pop_in.current_price, pop_in.implied_volatility, pop_in.dte)
    /\ pop_v1_out' = calculate_pop_V1(pop_in.option_type, pop_in.strike_price, pop_in.premium,
                                      pop_in.current_price, pop_in.implied_volatility,
                                      pop_in.dte, pop_in.numpy)
    /\ pc' = "done"
    /\ UNCHANGED <<pop_in, rankVars, trendVars, restVars>>

NextPop == CallPop

SpecPop == InitPop /\ [][NextPop]_vars

----------------------------------------------------------------------------
\* functions/options_logic.py analyze_single_option_details
\*
\* A check of the scoring system yields the points it adds, the tag of the
\* string it appends to reasons (if any) and the tag of the string it appends
\* to red_flags (if any).

Good(points, tag) == [points |-> points, reasons |-> <<tag>>, red_flags |-> <<>>]

Flag(points, tag) == [points |-> points, reasons |-> <<>>, red_flags |-> <<tag>>]

\* line 188: row.get("delta", 0.0) if it is not null, else 0.0
single_delta(row) == IF IsNaN(row.delta) THEN 0 ELSE row.delta

\* lines 204-205: (ask - bid) / (price + 1e-9) * 100 if price > 0 else 0, as
\* the fraction num / den.
single_spread_pct(row) ==
    IF row.lastPrice > 0
    THEN [num |-> 100 * (row.ask - row.bid), den |-> row.lastPrice]
    ELSE [num |-> 0, den |-> 1]

\* lines 200-201: abs(breakeven - current_price) / (current_price + 1e-9) * 100,
\* as the fraction num / den; with a current price of 0 the quotient is 0 for a
\* distance of 0 and exceeds every threshold otherwise.
single_breakeven_pct(breakeven, current_price) ==
    [num |-> 100 * Abs(breakeven - current_price), den |-> current_price]

\* line 336: time_value / (price + 1e-9) * 100 if price > 0 else 0
time_value_pct(time_value, price) ==
    IF price > 0 THEN [num |-> 100 * time_value, den |-> price]
    ELSE [num |-> 0, den |-> 1]

\* lines 217-231
PopCheck(pop) ==
    IF IsNaN(pop) \/ pop = 0 THEN Good(0, "POP N/A")
    ELSE IF 100 * pop >= 55 * SCALE THEN Good(25, "High POP")
    ELSE IF 100 * pop >= 45 * SCALE THEN Good(20, "Moderate POP")
    ELSE IF 100 * pop >= 35 * SCALE THEN Good(15, "Fair POP")
    ELSE Flag(5, "Low POP")

\* VolumeCheck with 15 points, not 10, for a volume of 500 or more.
VolumeCheck_Fifteen(volume) ==
    IF volume >= 500 THEN Good(15, "Excellent Volume")
    ELSE IF volume >= 100 THEN Good(7, "Good Volume")
    ELSE IF volume >= 50 THEN Good(4, "Moderate Volume")
    ELSE Flag(0, "Low Volume")

\* lines 239-249
VolumeCheck(volume) ==
    IF volume >= 500 THEN Good(10, "Excellent Volume")
    ELSE IF volume >= 100 THEN Good(7, "Good Volume")
    ELSE IF volume >= 50 THEN Good(4, "Moderate Volume")
    ELSE Flag(0, "Low Volume")

\* lines 252-262
OpenInterestCheck(oi) ==
    IF oi >= 1000 THEN Good(10, "High Open Interest")
    ELSE IF oi >= 500 THEN Good(7, "Good Open Interest")
    ELSE IF oi >= 100 THEN Good(4, "Moderate Open Interest")
    ELSE Flag(0, "Low Open Interest")

\* lines 265-275
SpreadCheck(pct) ==
    IF pct.num <= 5 * pct.den THEN Good(5, "Tight Spread")
    ELSE IF pct.num <= 10 * pct.den THEN Good(3, "Acceptable Spread")
    ELSE IF pct.num <= 15 * pct.den THEN Good(1, "Wide Spread")
    ELSE Flag(0, "Very Wide Spread")

\* lines 280-292, iv in hundredths
IvCheck(iv) ==
    IF 15 <= iv /\ iv <= 60 THEN Good(15, "Healthy IV")
    ELSE IF 60 < iv /\ iv <= 100 THEN Good(10, "Elevated IV")
    ELSE IF iv < 15 THEN Flag(8, "Very Low IV")
    ELSE Flag(5, "Extreme IV")

\* lines 298-330, delta in hundredths; every type but 'call' takes the put
\* branch.
DeltaCheck(option_type, delta) ==
    LET d == IF option_type = "call" THEN delta ELSE Abs(delta)
    IN  IF 60 <= d /\ d <= 80 THEN Good(20, "Strong Delta")
        ELSE IF 40 <= d /\ d < 60 THEN Good(18, "Balanced Delta")
        ELSE IF 25 <= d /\ d < 40 THEN Good(14, "Moderate Delta")
        ELSE IF 15 <= d /\ d < 25 THEN Good(8, "Low Delta")
        ELSE Flag(3, "Very Low Delta")

\* lines 338-348
BreakevenCheck(pct) ==
    IF pct.num <= 3 * pct.den THEN Good(8, "Close Breakeven")
    ELSE IF pct.num <= 6 * pct.den THEN Good(6, "Reasonable Breakeven")
    ELSE IF pct.num <= 10 * pct.den THEN Good(3, "Distant Breakeven")
    ELSE Flag(0, "Very Distant Breakeven")

\* lines 350-358
TimeValueCheck(pct) ==
    IF 30 * pct.den <= pct.num /\ pct.num <= 70 * pct.den THEN Good(7, "Balanced Time Value")
    ELSE IF pct.num < 30 * pct.den THEN Good(4, "Low Time Value")
    ELSE Flag(2, "High Time Value")

\* Recommendation with the Buy branch taken for any number of red flags.
Recommendation_BuyAnyFlags(score, n_red_flags) ==
    IF score >= 80 /\ n_red_flags = 0 THEN "STRONG BUY"
    ELSE IF score >= 70 THEN "BUY"
    ELSE IF score >= 60 THEN "CONSIDER"
    ELSE IF score >= 50 THEN "CAUTION"
    ELSE "AVOID"

\* lines 366-380
Recommendation(score, n_red_flags) ==
    IF score >= 80 /\ n_red_flags = 0 THEN "STRONG BUY"
    ELSE IF score >= 70 /\ n_red_flags <= 1 THEN "BUY"
    ELSE IF score >= 60 THEN "CONSIDER"
    ELSE IF score >= 50 THEN "CAUTION"
    ELSE "AVOID"

\* lines 368-380: the confidence text that goes with a recommendation
ConfidenceText(recommendation) ==
    CASE recommendation = "STRONG BUY" -> "High Confidence"
      [] recommendation = "BUY" -> "Good Confidence"
      [] recommendation = "CONSIDER" -> "Moderate Confidence"
      [] recommendation = "CAUTION" -> "Low Confidence"
      [] OTHER -> "Not Recommended"

\* line 200 with the None that calculate_breakeven returns for a type that is
\* neither 'call' nor 'put': None - current_price raises TypeError.
SingleRaised == [raised |-> "TypeError"]

analyze_single_option_details(row, current_price, dte, option_type) ==
    LET price == row.lastPrice
        pop == calculate_pop(option_type, row.strike, price, current_price,
                             row.impliedVolatility, dte)
        intrinsic == calculate_intrinsic_value(option_type, row.strike, current_price)
        time_value == calculate_time_value(price, intrinsic)
        breakeven == calculate_breakeven(option_type, row.strike, price)
        checks == <<PopCheck(pop),
                    VolumeCheck(row.volume),
                    OpenInterestCheck(row.openInterest),
                    SpreadCheck(single_spread_pct(row)),
                    IvCheck(row.impliedVolatility),
                    DeltaCheck(option_type, single_delta(row)),
                    BreakevenCheck(single_breakeven_pct(breakeven, current_price)),
                    TimeValueCheck(time_value_pct(time_value, price))>>
        score == checks[1].points + checks[2].points + checks[3].points + checks[4].points
                    + checks[5].points + checks[6].points + checks[7].points + checks[8].points
        reasons == checks[1].reasons \o checks[2].reasons \o checks[3].reasons
                      \o checks[4].reasons \o checks[5].reasons \o checks[6].reasons
                      \o checks[7].reasons \o checks[8].reasons
        red_flags == checks[1].red_flags \o checks[2].red_flags \o checks[3].red_flags
                        \o checks[4].red_flags \o checks[5].red_flags \o checks[6].red_flags
                        \o checks[7].red_flags \o checks[8].red_flags
        recommendation == Recommendation(score, Len(red_flags))
    IN  IF option_type \notin {"call", "put"} THEN SingleRaised
        ELSE [recommendation |-> recommendation,
              confidence |-> ConfidenceText(recommendation),
              score |-> score,
              max_score |-> 100,
              reasons |-> reasons,
              red_flags |-> red_flags,
              max_loss |-> price,
              target_profit |-> price,
              rr_ratio |-> IF price > 0 THEN 200 ELSE NaN,
              pop |-> pop,
              breakeven |-> breakeven,
              breakeven_pct |-> single_breakeven_pct(breakeven, current_price)]

----------------------------------------------------------------------------
\* Specification SpecSingle: one call of analyze_single_option_details on a
\* contract whose columns are numbers and whose delta may be missing.

SingleRows ==
    [strike : {9000, 10000},
     lastPrice : {500, 1000, 2000},
     quote : {<<2000, 2000>>, <<1950, 2050>>, <<1800, 2200>>},
     volume : {10, 500},
     openInterest : {50, 1000},
     impliedVolatility : {10, 30, 80, 150},
     delta : {NaN, 0, 50, 70}]

\* The row of the chain that a choice of SingleRows stands for.
SingleRow(c) ==
    [strike |-> c.strike, lastPrice |-> c.lastPrice, bid |-> c.quote[1], ask |-> c.quote[2],
     volume |-> c.volume, openInterest |-> c.openInterest,
     impliedVolatility |-> c.impliedVolatility, delta |-> c.delta]

SingleTypes == {"call", "put", "straddle"}

SinglePrices == {0, 10000, 11000}

SingleDtes == {0, 30}

InitSingle ==
    /\ pc = "ready"
    /\ \E c \in SingleRows, t \in SingleTypes, p \in SinglePrices, d \in SingleDtes :
           single_in = [row |-> SingleRow(c), current_price |-> p, dte |-> d, option_type |-> t]
    /\ single_out = NoCall
    /\ PopIdle
    /\ RankIdle
    /\ TrendIdle
    /\ PivotIdle
    /\ IndIdle
    /\ EngineIdle
    /\ PnlIdle

CallSingle ==
    /\ pc = "ready"
    /\ single_out' = analyze_single_option_details(single_in.row, single_in.current_price,
                                                   single_in.dte, single_in.option_type)
    /\ pc' = "done"
    /\ UNCHANGED <<single_in, popVars, rankVars, trendVars, pivotVars, indVars, engineVars, pnlVars>>

NextSingle == CallSingle

SpecSingle == InitSingle /\ [][NextSingle]_vars

----------------------------------------------------------------------------
\* find_pivots, functions/calculations.py and TradeBot_V1.py
\*
\* Prices are integers; the levels are kept in 1/LEVEL_UNIT of a price so
\* that the means of line 207 are exact.

LEVEL_UNIT == 64

\* lines 179-180: the window is made odd, then raised to 3
EffectiveWindow(window) ==
    LET odd == IF window % 2 = 0 THEN window + 1 ELSE window
    IN  IF odd < 3 THEN 3 ELSE odd

\* The values of the window centred on position i that are not NaN.
WindowValues(series, i, window) ==
    LET h == (window - 1) \div 2
    IN  {series[j] : j \in {k \in 1..Len(series) : i - h <= k /\ k <= i + h}} \ {NaN}

\* Positions of the centred window that fall inside the series.
WindowCount(series, i, window) ==
    LET h == (window - 1) \div 2
    IN  Cardinality({k \in 1..Len(series) : i - h <= k /\ k <= i + h /\ ~IsNaN(series[k])})

\* lines 186-191: the values that equal the rolling minimum (is_min) or
\* maximum of their centred window, which needs min_periods values that are
\* not NaN.
RawPivots(series, window, min_periods, is_min) ==
    {series[i] : i \in {k \in 1..Len(series) :
        /\ ~IsNaN(series[k])
        /\ WindowCount(series, k, window) >= min_periods
        /\ series[k] = IF is_min THEN SetMin(WindowValues(series, k, window))
                       ELSE SetMax(WindowValues(series, k, window))}}

RECURSIVE SortedAsc(_)
SortedAsc(S) ==
    IF S = {} THEN <<>> ELSE <<SetMin(S)>> \o SortedAsc(S \ {SetMin(S)})

RECURSIVE Reversed(_)
Reversed(q) == IF q = <<>> THEN <<>> ELSE Reversed(Tail(q)) \o <<Head(q)>>

\* sorted(list) and sorted(list, reverse=True) on a list of numbers
RECURSIVE sorted(_, _)
sorted(q, reverse) ==
    IF q = <<>> THEN <<>>
    ELSE LET S == {q[i] : i \in 1..Len(q)}
             m == IF reverse THEN SetMax(S) ELSE SetMin(S)
             rest == SelectSeq(q, LAMBDA x : x # m)
             same == SelectSeq(q, LAMBDA x : x = m)
         IN  same \o sorted(rest, reverse)

\* series.mean() as the pair (sum, count) of the values that are not NaN
SeriesMean(series) ==
    LET valid == SelectSeq(series, LAMBDA x : ~IsNaN(x))
    IN  [sum |-> SumSeq(valid), count |-> Len(valid)]

\* MergeStep that appends every value, whatever its distance to the last level.
MergeStep_AlwaysAppend(unique, val, mean) == Append(unique, val)

\* MergeStep that replaces the last level by the sum of both, not halved.
MergeStep_Sum(unique, val, mean) ==
    LET last == unique[Len(unique)]
        far == IF last # 0 THEN 200 * Abs(val - last) > last
               ELSE 200 * mean.count * Abs(val - last) > mean.sum * LEVEL_UNIT
    IN  IF far THEN Append(unique, val)
        ELSE [unique EXCEPT ![Len(unique)] = last + val]

\* MergeStep that keeps the last level as it is when val is near it.
MergeStep_KeepLast(unique, val, mean) ==
    LET last == unique[Len(unique)]
        far == IF last # 0 THEN 200 * Abs(val - last) > last
               ELSE 200 * mean.count * Abs(val - last) > mean.sum * LEVEL_UNIT
    IN  IF far THEN Append(unique, val) ELSE unique

\* lines 202-207 (215-220): val is a new level if it is further than 0.5% of
\* the reference price from the last level, else the last level becomes the
\* mean of both.  The reference is the last level, or the mean of the series
\* when the last level is 0.
MergeStep(unique, val, mean) ==
    LET last == unique[Len(unique)]
        far == IF last # 0 THEN 200 * Abs(val - last) > last
               ELSE 200 * mean.count * Abs(val - last) > mean.sum * LEVEL_UNIT
    IN  IF far THEN Append(unique, val)
        ELSE [unique EXCEPT ![Len(unique)] = (last + val) \div 2]

RECURSIVE MergeLevels(_, _, _)
MergeLevels(unique, rest, mean) ==
    IF rest = <<>> THEN unique
    ELSE MergeLevels(MergeStep(unique, Head(rest), mean), Tail(rest), mean)

\* lines 196-207 and 209-220: the levels made of the sorted raw pivots
UniqueLevels(raw, mean, descending) ==
    LET asc == SortedAsc({v * LEVEL_UNIT : v \in raw})
        ordered == IF descending THEN Reversed(asc) ELSE asc
    IN  IF raw = {} THEN <<>>
        ELSE MergeLevels(<<Head(ordered)>>, Tail(ordered), mean)

NoPivots == [supports |-> <<>>, resistances |-> <<>>]

Pivots(series, window, min_periods) ==
    [supports |-> sorted(UniqueLevels(RawPivots(series, window, min_periods, TRUE),
                                      SeriesMean(series), FALSE), FALSE),
     resistances |-> sorted(UniqueLevels(RawPivots(series, window, min_periods, FALSE),
                                         SeriesMean(series), TRUE), TRUE)]

\* functions/calculations.py find_pivots; kind tells whether the argument is
\* a pandas Series.
find_pivots(kind, series, window) ==
    IF kind # "Series" \/ series = <<>> THEN NoPivots
    ELSE IF Len(series) < EffectiveWindow(window) THEN NoPivots
    ELSE Pivots(series, EffectiveWindow(window), 1)

PivotsRaised == [raised |-> "AttributeError"]

\* TradeBot_V1.py find_pivots: no guard, so an argument without .rolling
\* raises AttributeError, and the rolling windows need window values
\* (min_periods defaults to the window).
find_pivots_V1(kind, series, window) ==
    IF kind # "Series" THEN PivotsRaised
    ELSE Pivots(series, EffectiveWindow(window), EffectiveWindow(window))

----------------------------------------------------------------------------
\* Specification SpecPivots: one call of each copy of find_pivots.

MaxPivotLen == 5

PivotPrices == {NaN, 0, 1000, 1004, 1008, 1020}

PivotWindows == {2, 3, 4}

InitPivots ==
    /\ pc = "ready"
    /\ \E n \in 0..MaxPivotLen :
           pivot_in \in [kind : {"Series", "list"}, series : [1..n -> PivotPrices],
                         window : PivotWindows]
    /\ pivot_out = NoCall
    /\ PopIdle
    /\ RankIdle
    /\ TrendIdle
    /\ SingleIdle
    /\ IndIdle
    /\ EngineIdle
    /\ PnlIdle

CallPivots ==
    /\ pc = "ready"
    /\ pivot_out' = [calc |-> find_pivots(pivot_in.kind, pivot_in.series, pivot_in.window),
                     v1 |-> find_pivots_V1(pivot_in.kind, pivot_in.series, pivot_in.window)]
    /\ pc' = "done"
    /\ UNCHANGED <<pivot_in, popVars, rankVars, trendVars, singleVars, indVars, engineVars, pnlVars>>

NextPivots == CallPivots

SpecPivots == InitPivots /\ [][NextPivots]_vars

----------------------------------------------------------------------------
\* calculate_technical_indicators and calculate_vwap
\*
\* Closes are integers; averages of prices are kept in 1/IND_UNIT of a price
\* and RSI values in 1/RSI_UNIT of a point, both rounded down.  A frame is
\* the record of its columns ("OHLCV" or "no Close") and its bars.

IND_UNIT == 1000

RSI_UNIT == 100

RSI_PERIOD == 14

MACD_FAST_PERIOD == 12

MACD_SLOW_PERIOD == 26

MACD_SIGNAL_PERIOD == 9

RECURSIVE Pow(_, _)
Pow(b, e) == IF e = 0 THEN 1 ELSE b * Pow(b, e - 1)

\* pandas ewm(alpha = an / ad, adjust=False).mean() from position i on:
\* weighted is the running mean (NaN before the first observation) and gap
\* the number of NaN seen since the last observation; each step multiplies
\* old_wt by 1 - alpha, an observation that differs from the mean moves it to
\* (old_wt * weighted + alpha * cur) / (old_wt + alpha), and a NaN repeats it.
RECURSIVE EwmFrom(_, _, _, _, _, _)
EwmFrom(vals, i, weighted, gap, an, ad) ==
    IF i > Len(vals) THEN <<>>
    ELSE LET cur == vals[i]
             old == Pow(ad - an, gap + 1)
             new == an * Pow(ad, gap)
             next == IF IsNaN(weighted) THEN cur
                     ELSE IF IsNaN(cur) \/ weighted = cur THEN weighted
                     ELSE (old * weighted + new * cur) \div (old + new)
             gap2 == IF IsNaN(weighted) \/ ~IsNaN(cur) THEN 0 ELSE gap + 1
         IN  <<next>> \o EwmFrom(vals, i + 1, next, gap2, an, ad)

Ewm(vals, an, ad) == EwmFrom(vals, 1, NaN, 0, an, ad)

\* series.dropna()
dropna(q) == SelectSeq(q, LAMBDA x : ~IsNaN(x))

\* series.diff(): NaN at the first position and next to a NaN
diff(q) ==
    [i \in 1..Len(q) |->
        IF i = 1 \/ IsNaN(q[i]) \/ IsNaN(q[i - 1]) THEN NaN ELSE q[i] - q[i - 1]]

\* delta.clip(lower=0), in 1/IND_UNIT
gain_of(d) == IF IsNaN(d) THEN NaN ELSE Max2(d, 0) * IND_UNIT

\* -delta.clip(upper=0), in 1/IND_UNIT
loss_of(d) == IF IsNaN(d) THEN NaN ELSE -(Min2(d, 0) * IND_UNIT)

\* computed.reindex(df.index) of a series computed on the closes that are not
\* NaN: each bar gets the value of its close, a bar without close gets NaN.
reindex(computed, closes) ==
    [i \in 1..Len(closes) |->
        IF IsNaN(closes[i]) THEN NaN
        ELSE computed[Len(dropna(SubSeq(closes, 1, i)))]]

\* lines 252-253 (V1 931-933): 100 - 100 / (1 + avg_gain / avg_loss), where
\* an avg_loss of 0 is replaced by 1e-10 (V1: increased by 1e-9), which gives
\* 0 without gains and 100 less a rounding with gains.
RsiValue(avg_gain, avg_loss) ==
    IF IsNaN(avg_gain) \/ IsNaN(avg_loss) THEN NaN
    ELSE IF avg_loss = 0 THEN (IF avg_gain = 0 THEN 0 ELSE 100 * RSI_UNIT)
    ELSE (100 * RSI_UNIT * avg_gain) \div (avg_gain + avg_loss)

\* rsi_fillna that leaves the undefined values undefined.
rsi_fillna_Missing(x) == x

\* line 254 (V1 934): .fillna(50)
rsi_fillna(x) == fillna(x, 50 * RSI_UNIT)

\* lines 244-249: the rolling mean of the first RSI_PERIOD values (defined at
\* the last of them only), followed by the later values, smoothed with
\* alpha = 1 / RSI_PERIOD.
WilderAverage(moves) ==
    LET seed == [i \in 1..RSI_PERIOD |->
                    IF i < RSI_PERIOD THEN NaN
                    ELSE SumSeq(SubSeq(moves, 1, RSI_PERIOD)) \div RSI_PERIOD]
    IN  Ewm(seed \o SubSeq(moves, RSI_PERIOD + 1, Len(moves)), 1, RSI_PERIOD)

\* lines 236-254
Rsi(closes) ==
    LET close_prices == dropna(closes)
        delta == diff(close_prices)
        gain == [i \in 1..Len(delta) |-> fillna(gain_of(delta[i]), 0)]
        loss == [i \in 1..Len(delta) |-> fillna(loss_of(delta[i]), 0)]
        avg_gain == WilderAverage(gain)
        avg_loss == WilderAverage(loss)
        rsi == [i \in 1..Len(delta) |-> RsiValue(avg_gain[i], avg_loss[i])]
        placed == reindex(rsi, closes)
    IN  IF Len(close_prices) <= RSI_PERIOD THEN [i \in 1..Len(closes) |-> 50 * RSI_UNIT]
        ELSE [i \in 1..Len(closes) |-> rsi_fillna(placed[i])]

\* a - b of two series, NaN where either is
Minus(a, b) ==
    [i \in 1..Len(a) |-> IF IsNaN(a[i]) \/ IsNaN(b[i]) THEN NaN ELSE a[i] - b[i]]

\* lines 261-263 (V1 937-939): EMA(span fast) - EMA(span slow), alpha = 2 / (span + 1)
MacdLine(close_prices) ==
    LET scaled == [i \in 1..Len(close_prices) |->
                      IF IsNaN(close_prices[i]) THEN NaN ELSE close_prices[i] * IND_UNIT]
    IN  Minus(Ewm(scaled, 2, MACD_FAST_PERIOD + 1), Ewm(scaled, 2, MACD_SLOW_PERIOD + 1))

\* EnoughForMacd that asks for the fast period only.
EnoughForMacd_Fast(n_closes) == n_closes >= MACD_FAST_PERIOD

\* line 260
EnoughForMacd(n_closes) == n_closes >= MACD_SLOW_PERIOD

\* lines 260-271
Macd(closes) ==
    LET close_prices == dropna(closes)
        macd_line == reindex(MacdLine(close_prices), closes)
        signal_line == Ewm(macd_line, 2, MACD_SIGNAL_PERIOD + 1)
        zeros == [i \in 1..Len(closes) |-> 0]
    IN  IF EnoughForMacd(Len(close_prices))
        THEN [macd_line |-> [i \in 1..Len(closes) |-> fillna(macd_line[i], 0)],
              signal_line |-> [i \in 1..Len(closes) |-> fillna(signal_line[i], 0)]]
        ELSE [macd_line |-> zeros, signal_line |-> zeros]

Column(df, name) == [i \in 1..Len(df.bars) |-> df.bars[i][name]]

\* functions/calculations.py calculate_technical_indicators
calculate_technical_indicators(df) ==
    LET closes == Column(df, "Close")
    IN  IF df.columns = "no Close" \/ closes = <<>> \/ dropna(closes) = <<>>
        THEN [rsi |-> <<>>, macd_line |-> <<>>, signal_line |-> <<>>]
        ELSE [rsi |-> Rsi(closes),
              macd_line |-> Macd(closes).macd_line,
              signal_line |-> Macd(closes).signal_line]

IndicatorsRaised == [raised |-> "KeyError"]

\* TradeBot_V1.py calculate_technical_indicators with the periods of lines
\* 681-688: nothing is dropped or guarded, the averages are plain EMAs of
\* span rsi_period, and only the RSI is filled.
calculate_technical_indicators_V1(df) ==
    LET close_prices == Column(df, "Close")
        delta == diff(close_prices)
        avg_gain == Ewm([i \in 1..Len(delta) |-> gain_of(delta[i])], 2, RSI_PERIOD + 1)
        avg_loss == Ewm([i \in 1..Len(delta) |-> loss_of(delta[i])], 2, RSI_PERIOD + 1)
        macd_line == MacdLine(close_prices)
    IN  IF df.columns = "no Close" THEN IndicatorsRaised
        ELSE [rsi |-> [i \in 1..Len(delta) |-> rsi_fillna(RsiValue(avg_gain[i], avg_loss[i]))],
              macd_line |-> macd_line,
              signal_line |-> Ewm(macd_line, 2, MACD_SIGNAL_PERIOD + 1)]

\* series.cumsum(): NaN where the value is NaN, which the running sum skips
RECURSIVE cumsum(_)
cumsum(q) ==
    IF q = <<>> THEN <<>>
    ELSE LET n == Len(q)
             before == cumsum(SubSeq(q, 1, n - 1))
         IN  Append(before, IF IsNaN(q[n]) THEN NaN ELSE SumSeq(dropna(q)))

\* series.ffill(): a NaN takes the last value before it that is not NaN
ffill(q) ==
    [i \in 1..Len(q) |->
        LET seen == dropna(SubSeq(q, 1, i))
        IN  IF seen = <<>> THEN NaN ELSE seen[Len(seen)]]

\* series.bfill(): a NaN takes the first value after it that is not NaN
bfill(q) ==
    [i \in 1..Len(q) |->
        LET ahead == dropna(SubSeq(q, i, Len(q)))
        IN  IF ahead = <<>> THEN NaN ELSE ahead[1]]

\* functions/calculations.py calculate_vwap: the VWAP column of the returned
\* frame, in 1/IND_UNIT; High + Low + Close is kept undivided and the
\* division by 3 made at the end.
calculate_vwap(df) ==
    LET n == Len(df.bars)
        Volume == [i \in 1..n |-> fillna(df.bars[i].Volume, 0)]
        TypicalPrice3 == [i \in 1..n |->
            IF IsNaN(df.bars[i].High) \/ IsNaN(df.bars[i].Low) \/ IsNaN(df.bars[i].Close)
            THEN NaN ELSE df.bars[i].High + df.bars[i].Low + df.bars[i].Close]
        price_volume_weighted == [i \in 1..n |->
            IF IsNaN(TypicalPrice3[i]) THEN NaN ELSE TypicalPrice3[i] * Volume[i]]
        CumVol == cumsum(Volume)
        CumVolPrice == cumsum(price_volume_weighted)
        VWAP == [i \in 1..n |->
            IF IsNaN(CumVolPrice[i]) \/ CumVol[i] = 0 THEN NaN
            ELSE (CumVolPrice[i] * IND_UNIT) \div (3 * CumVol[i])]
    IN  IF df.columns = "OHLCV" THEN bfill(ffill(VWAP))
        ELSE [i \in 1..n |-> NaN]

\* TradeBot_V1.py calculate_vwap: no check of the columns, so a frame without
\* Close raises KeyError, and the Volume column is used as it comes.
calculate_vwap_V1(df) ==
    LET n == Len(df.bars)
        Volume == [i \in 1..n |-> df.bars[i].Volume]
        TypicalPrice3 == [i \in 1..n |->
            IF IsNaN(df.bars[i].High) \/ IsNaN(df.bars[i].Low) \/ IsNaN(df.bars[i].Close)
            THEN NaN ELSE df.bars[i].High + df.bars[i].Low + df.bars[i].Close]
        price_volume_weighted == [i \in 1..n |->
            IF IsNaN(TypicalPrice3[i]) \/ IsNaN(Volume[i]) THEN NaN
            ELSE TypicalPrice3[i] * Volume[i]]
        CumVol == cumsum(Volume)
        CumVolPrice == cumsum(price_volume_weighted)
        VWAP == [i \in 1..n |->
            IF IsNaN(CumVolPrice[i]) \/ IsNaN(CumVol[i]) \/ CumVol[i] = 0 THEN NaN
            ELSE (CumVolPrice[i] * IND_UNIT) \div (3 * CumVol[i])]
    IN  IF df.columns = "no Close" THEN IndicatorsRaised
        ELSE bfill(ffill(VWAP))

----------------------------------------------------------------------------
\* Specification SpecInd: one call of the indicator functions on one frame.

MaxIndBars == 27

\* Closes that start at 100 and move by first for the first turn steps and
\* by then afterwards.
PatternClose(i, first, turn, then) ==
    100 + first * Min2(i - 1, turn) + then * Max2(i - 1 - turn, 0)

IndSteps == {-1, 0, 1}

IndTurns == {0, 7, 20}

\* Which closes are missing: none, the first, the sixteenth, or all.
IndMissing == {"none", "first", "one", "all"}

IsMissing(i, missing) ==
    \/ missing = "all"
    \/ missing = "first" /\ i = 1
    \/ missing = "one" /\ i = 16

\* Volumes: traded at every bar, at no bar, or from the second bar on.
IndVolumes == {"every", "never", "late"}

VolumeAt(i, volumes) ==
    IF volumes = "never" \/ (volumes = "late" /\ i = 1) THEN 0 ELSE 100

Frame(columns, n, first, turn, then, missing, volumes) ==
    [columns |-> columns,
     bars |-> [i \in 1..n |->
        LET c == IF IsMissing(i, missing) THEN NaN ELSE PatternClose(i, first, turn, then)
        IN  [High |-> IF IsNaN(c) THEN NaN ELSE c + 1,
             Low |-> IF IsNaN(c) THEN NaN ELSE c - 1,
             Close |-> c,
             Volume |-> VolumeAt(i, volumes)]]]

InitInd ==
    /\ pc = "ready"
    /\ \E columns \in {"OHLCV", "no Close"}, n \in 0..MaxIndBars,
          first \in IndSteps, turn \in IndTurns, then \in IndSteps,
          missing \in IndMissing, volumes \in IndVolumes :
           ind_in = Frame(columns, n, first, turn, then, missing, volumes)
    /\ ind_out = NoCall
    /\ PopIdle
    /\ RankIdle
    /\ TrendIdle
    /\ SingleIdle
    /\ PivotIdle
    /\ EngineIdle
    /\ PnlIdle

CallIndicators ==
    /\ pc = "ready"
    /\ ind_out' = [calc |-> calculate_technical_indicators(ind_in),
                   v1 |-> calculate_technical_indicators_V1(ind_in),
                   vwap |-> calculate_vwap(ind_in),
                   vwap_v1 |-> calculate_vwap_V1(ind_in)]
    /\ pc' = "done"
    /\ UNCHANGED <<ind_in, popVars, rankVars, trendVars, singleVars, pivotVars, engineVars, pnlVars>>

NextInd == CallIndicators

SpecInd == InitInd /\ [][NextInd]_vars

----------------------------------------------------------------------------
\* Objects and calls: what the engine functions do to the objects they are
\* given.  heap maps an object id to the object's value; the caller owns a
\* chain table for calls, one for a second ranking, a price frame and a
\* series, and "df" is the object the running function made with .copy().
\* A chain table is [has_delta, rows]: whether it has a delta column, and its
\* rows; a price frame is [columns, bars, added, VWAP].

Owned == {"chain_a", "chain_b", "frame", "series"}

\* df = df_original with no copy: df names the caller's object.
copy_Alias(obj) == obj

\* options_logic.py line 45 and calculations.py line 157, df = x.copy(): df
\* names a new object, whose value is that of x.
copy(obj) == "df"

\* options_logic.py lines 48-53, the statements that change the object df
\* in place: the delta column is added when missing and the rows with a
\* null in a required column are dropped.
rank_in_place(table) ==
    [has_delta |-> TRUE,
     rows |-> SelectSeq(table.rows, LAMBDA row : \A c \in required_cols : ~IsNaN(row[c]))]

\* calculations.py lines 160-171, the statements that change the object df
\* in place: CumVol, CumVolPrice and VWAP are added to a frame with its four
\* columns, VWAP alone otherwise.
vwap_in_place(frame) ==
    [columns |-> frame.columns,
     bars |-> frame.bars,
     added |-> IF frame.columns = "OHLCV" THEN {"CumVol", "CumVolPrice", "VWAP"}
               ELSE {"VWAP"},
     VWAP |-> calculate_vwap(frame)]

\* One call in the history of a session.
Call(fn, arg, given, result_id, result) ==
    [fn |-> fn, arg |-> arg, given |-> given, result_id |-> result_id, result |-> result]

----------------------------------------------------------------------------
\* Specification SpecSession: a caller makes several calls of the engine
\* functions, one after the other, on objects it keeps.

MaxCalls == 2

SessionPrice == 10000

SessionDte == 7

Liquid == [Base EXCEPT !.volume = 500, !.openInterest = 1000]

SessionTables ==
    {[has_delta |-> FALSE, rows |-> <<Base, Liquid>>],
     [has_delta |-> TRUE,
      rows |-> <<[Base EXCEPT !.volume = 500, !.delta = 35], [Base EXCEPT !.delta = 90]>>],
     [has_delta |-> FALSE, rows |-> <<[Base EXCEPT !.strike = NaN], Liquid>>],
     [has_delta |-> TRUE, rows |-> <<>>]}

SessionFrame(frame) ==
    [columns |-> frame.columns, bars |-> frame.bars, added |-> {}, VWAP |-> <<>>]

SessionFrames ==
    {SessionFrame(Frame("OHLCV", 3, 1, 0, 1, "none", "every")),
     SessionFrame(Frame("OHLCV", 2, -1, 0, -1, "first", "late")),
     SessionFrame(Frame("no Close", 1, 0, 0, 0, "none", "every"))}

SessionSeries ==
    {[kind |-> "Series", series |-> <<1000, 1004, 1020, 1008>>, window |-> 3],
     [kind |-> "Series", series |-> <<1020, NaN, 1000>>, window |-> 2],
     [kind |-> "list", series |-> <<1000, 1020, 1000>>, window |-> 3]}

InitSession ==
    /\ pc = "ready"
    /\ \E a \in SessionTables, b \in SessionTables, f \in SessionFrames, s \in SessionSeries :
           caller = [id \in Owned |->
                        CASE id = "chain_a" -> a [] id = "chain_b" -> b
                          [] id = "frame" -> f [] id = "series" -> s]
    /\ heap = [id \in Owned \cup {"df"} |-> IF id \in Owned THEN caller[id] ELSE NoCall]
    /\ history = <<>>
    /\ last_bounds = NoCall
    /\ PopIdle
    /\ RankIdle
    /\ TrendIdle
    /\ SingleIdle
    /\ PivotIdle
    /\ IndIdle
    /\ PnlIdle

SessionUnchanged == UNCHANGED <<caller, popVars, rankVars, trendVars, singleVars,
                                pivotVars, indVars, pnlVars>>

\* rank_options_logic(heap[arg], option_type, SessionPrice, SessionDte)
CallSessionRank ==
    /\ Len(history) < MaxCalls
    /\ \E arg \in {"chain_a", "chain_b"}, option_type \in OptionTypes :
           LET df_original == heap[arg]
               df == copy(arg)
               filtered == SelectSeq(Indexed(df_original.rows), PassesFilters)
               bounds == IF filtered = <<>> THEN last_bounds
                         ELSE volume_bounds(filtered, last_bounds)
               scored == IF filtered = <<>> THEN <<>>
                         ELSE ScoredWith(filtered, bounds, option_type,
                                         SessionPrice, SessionDte)
           IN  /\ heap' = [heap EXCEPT ![df] = rank_in_place(df_original)]
               /\ last_bounds' = bounds
               /\ \E result \in sort_values(scored) :
                      history' = Append(history,
                          Call("rank_options_logic", arg,
                               [table |-> df_original, option_type |-> option_type],
                               "new", result))
    /\ pc' = "done"
    /\ SessionUnchanged

\* calculate_vwap(heap["frame"]): the object returned is df itself
CallSessionVwap ==
    /\ Len(history) < MaxCalls
    /\ LET df == copy("frame")
       IN  /\ heap' = [heap EXCEPT ![df] = vwap_in_place(heap["frame"])]
           /\ history' = Append(history,
                  Call("calculate_vwap", "frame", heap["frame"], df,
                       vwap_in_place(heap["frame"])))
    /\ pc' = "done"
    /\ UNCHANGED last_bounds
    /\ SessionUnchanged

\* calculate_technical_indicators(heap["frame"]): the frame is only read
CallSessionIndicators ==
    /\ Len(history) < MaxCalls
    /\ history' = Append(history,
           Call("calculate_technical_indicators", "frame", heap["frame"], "new",
                calculate_technical_indicators(heap["frame"])))
    /\ pc' = "done"
    /\ UNCHANGED <<heap, last_bounds>>
    /\ SessionUnchanged

\* find_pivots(heap["series"]): the series is only read
CallSessionPivots ==
    /\ Len(history) < MaxCalls
    /\ history' = Append(history,
           Call("find_pivots", "series", heap["series"], "new",
                find_pivots(heap["series"].kind, heap["series"].series,
                            heap["series"].window)))
    /\ pc' = "done"
    /\ UNCHANGED <<heap, last_bounds>>
    /\ SessionUnchanged

NextSession ==
    \/ CallSessionRank
    \/ CallSessionVwap
    \/ CallSessionIndicators
    \/ CallSessionPivots

SpecSession == InitSession /\ [][NextSession]_vars

----------------------------------------------------------------------------
\* functions/options_logic.py calculate_option_pnl and calculate_breakeven
\*
\* Strikes, premiums and prices are Python floats.  A binary64 value near
\* c cents is the pair [c, e] standing for c/100 + e * 2^-60 / 25, which is
\* exact: c is the decimal amount and e the error of the binary value.

\* 2^n modulo 25, which has period 20
Pow2Mod25(n) == Pow(2, n % 20) % 25

\* The b with 2^b <= c/100 + e * 2^-60/25 < 2^(b+1), for 0.01 <= c/100 < 512.
DoubleBinade(c, e) ==
    CHOOSE b \in -7..8 :
        /\ c * 128 > 100 * Pow(2, b + 7) \/ (c * 128 = 100 * Pow(2, b + 7) /\ e >= 0)
        /\ c * 128 < 100 * Pow(2, b + 8) \/ (c * 128 = 100 * Pow(2, b + 8) /\ e < 0)

\* Round-to-nearest-even of the exact value [c, e], c > 0, to 53 bits: the
\* unit in the last place is 2^(b-52), that is u = 25 * 2^(b+8).
DoubleRoundPos(c, e) ==
    LET j  == DoubleBinade(c, e) + 8
        u  == 25 * Pow(2, j)
        t2 == (Pow(2, j + 1) * (((c % 25) * Pow2Mod25(57 - j)) % 25) + e) % (2 * u)
        r  == t2 % u
    IN  IF r = 0 THEN [c |-> c, e |-> e]
        ELSE IF 2 * r < u THEN [c |-> c, e |-> e - r]
        ELSE IF 2 * r > u THEN [c |-> c, e |-> e + u - r]
        ELSE IF t2 >= u THEN [c |-> c, e |-> e + u - r]
        ELSE [c |-> c, e |-> e - r]

\* A value near 0 cents is a difference of two close binary64 values, which
\* is exact.
DoubleRound(c, e) ==
    IF c = 0 THEN [c |-> 0, e |-> e]
    ELSE IF c > 0 THEN DoubleRoundPos(c, e)
    ELSE LET m == DoubleRoundPos(-c, -e) IN [c |-> -m.c, e |-> -m.e]

\* The float of a decimal amount of c cents
Double(c) == DoubleRound(c, 0)

\* a + b and a - b in binary64
DoubleAdd(a, b) == DoubleRound(a.c + b.c, a.e + b.e)

DoubleSub(a, b) == DoubleRound(a.c - b.c, a.e - b.e)

DoubleGt(a, b) == a.c > b.c \/ (a.c = b.c /\ a.e > b.e)

\* max(0, x)
Max0(x) == IF DoubleGt(x, Double(0)) THEN x ELSE Double(0)

\* lines 13 and 17: profit_loss for one underlying price
LegPnl(option_type, strike_price, premium, price) ==
    IF option_type = "call" THEN DoubleSub(Max0(DoubleSub(price, strike_price)), premium)
    ELSE DoubleSub(Max0(DoubleSub(strike_price, price)), premium)

\* lines 8-19: the list stays empty for a type that is neither call nor put
calculate_option_pnl(option_type, strike_price, premium, underlying_prices) ==
    IF option_type \in {"call", "put"}
    THEN [i \in 1..Len(underlying_prices) |->
             LegPnl(option_type, strike_price, premium, underlying_prices[i])]
    ELSE <<>>

None == [none |-> TRUE]

\* lines 21-27 on floats
calculate_breakeven_float(option_type, strike_price, premium) ==
    IF option_type = "call" THEN DoubleAdd(strike_price, premium)
    ELSE IF option_type = "put" THEN DoubleSub(strike_price, premium)
    ELSE None

----------------------------------------------------------------------------
\* Specification SpecPnl: calculate_breakeven and calculate_option_pnl on one
\* option leg, for a list of underlying prices and for the breakeven price.

MaxPrices == 2

PnlTypes == {"call", "put", "straddle"}

PnlStrikes == {200, 9750, 10000}

PnlPremiums == {0, 10, 50, 235}

PnlUnderlying == {0, 9000, 10000, 11000}

InitPnl ==
    /\ pc = "ready"
    /\ \E n \in 0..MaxPrices :
           pnl_in \in [option_type : PnlTypes, strike_price : PnlStrikes,
                       premium : PnlPremiums, underlying_prices : [1..n -> PnlUnderlying]]
    /\ pnl_out = NoCall
    /\ PopIdle
    /\ RankIdle
    /\ TrendIdle
    /\ SingleIdle
    /\ PivotIdle
    /\ IndIdle
    /\ EngineIdle

CallPnl ==
    /\ pc = "ready"
    /\ LET strike_price == Double(pnl_in.strike_price)
           premium == Double(pnl_in.premium)
           prices == [i \in 1..Len(pnl_in.underlying_prices) |->
                         Double(pnl_in.underlying_prices[i])]
           breakeven == calculate_breakeven_float(pnl_in.option_type, strike_price, premium)
       IN  pnl_out' = [pnl |-> calculate_option_pnl(pnl_in.option_type, strike_price,
                                                    premium, prices),
                       breakeven |-> breakeven,
                       at_breakeven |->
                           IF breakeven = None THEN <<>>
                           ELSE calculate_option_pnl(pnl_in.option_type, strike_price,
                                                     premium, <<breakeven>>)]
    /\ pc' = "done"
    /\ UNCHANGED <<pnl_in, popVars, rankVars, trendVars, singleVars, pivotVars, indVars,
                   engineVars>>

NextPnl == CallPnl

SpecPnl == InitPnl /\ [][NextPnl]_vars

----------------------------------------------------------------------------
\* Claims about rank_options_logic (SpecRank)

Chain == rank_in.chain

RankedRows == {ranked[i] : i \in 1..Len(ranked)}

\* The hard filters as the specification states them; (ask - bid) is at most
\* 20% of (bid + ask) / 2 iff 10 (ask - bid) <= bid + ask.
HardFiltersHold(r) ==
    /\ \A c \in {"strike", "lastPrice", "bid", "ask", "volume", "openInterest",
                 "impliedVolatility"} : r[c] # NaN
    /\ r.lastPrice > 1
    /\ r.bid > 0
    /\ r.ask > 0
    /\ 0 < r.impliedVolatility /\ r.impliedVolatility < 500
    /\ r.volume >= 10
    /\ r.openInterest >= 50
    /\ 10 * (r.ask - r.bid) <= r.bid + r.ask

SameContract(out, in) ==
    \A c \in {"strike", "lastPrice", "bid", "ask", "volume", "openInterest",
              "impliedVolatility"} : out[c] = in[c]

\* C1: every row of the returned table is a row of the chain that satisfies
\* every hard filter, and every chain row that satisfies them all is in the
\* table exactly once; so a row with volume 5 or with a spread of 25% of the
\* mid-price is never returned.
C1_FiltersExact ==
    pc = "done" =>
        /\ \A r \in RankedRows :
              /\ r.idx \in 1..Len(Chain)
              /\ SameContract(r, Chain[r.idx])
              /\ HardFiltersHold(r)
        /\ \A k \in 1..Len(Chain) :
              HardFiltersHold(Chain[k]) =>
                  Cardinality({i \in 1..Len(ranked) : ranked[i].idx = k}) = 1

\* C1 witness: a chain with a volume-5 row and a row of a 25% spread next to
\* nothing else returns an empty table, and one with a volume-5 row and a
\* passing row returns the passing row alone.
C1_Witness ==
    /\ pc = "done"
    /\ Len(Chain) = 2
    /\ Chain[1].volume = 5
    /\ HardFiltersHold(Chain[2])
    /\ Len(ranked) = 1
    /\ ranked[1].idx = 2

\* C2: the table is ordered by Overall_Score, non-increasing, and rows of
\* equal Overall_Score keep the relative order they have in the chain.
C2_SortedStable ==
    pc = "done" =>
        \A i, j \in 1..Len(ranked) :
            i < j =>
                /\ ranked[i].Overall_Score >= ranked[j].Overall_Score
                /\ ranked[i].Overall_Score = ranked[j].Overall_Score
                       => ranked[i].idx < ranked[j].idx

\* The tier the specification gives a score: Poor [0, 0.4), Fair [0.4, 0.6),
\* Good [0.6, 0.75), Excellent [0.75, 1.0].
SpecTier(score) ==
    IF 0 <= score /\ 10 * score < 4 * SCORE_ONE THEN "Poor"
    ELSE IF 10 * score >= 4 * SCORE_ONE /\ 10 * score < 6 * SCORE_ONE THEN "Fair"
    ELSE IF 10 * score >= 6 * SCORE_ONE /\ 100 * score < 75 * SCORE_ONE THEN "Good"
    ELSE IF 100 * score >= 75 * SCORE_ONE /\ score <= SCORE_ONE THEN "Excellent"
    ELSE "NaN"

\* C3: every returned row has the tier of the left-closed intervals, so a
\* score of exactly 0.4, 0.6 or 0.75 has the higher tier, and no tier is
\* missing.
C3_TierIntervals ==
    pc = "done" =>
        \A r \in RankedRows :
            /\ r.Quality_Tier = SpecTier(r.Overall_Score)
            /\ r.Quality_Tier # "NaN"

\* C4: in every returned row the four component scores are in [0, 1] and
\* Overall_Score is 0.40 pop_score + 0.25 liquidity_score + 0.20 value_score
\* + 0.15 delta_score, itself in [0, 1].
C4_ScoresBounded ==
    pc = "done" =>
        \A r \in RankedRows :
            /\ 0 <= r.pop_score /\ r.pop_score <= SCALE
            /\ 0 <= r.liquidity_score /\ r.liquidity_score <= LIQ_ONE
            /\ 0 <= r.value_score /\ r.value_score <= LIQ_ONE
            /\ 0 <= r.delta_score /\ r.delta_score <= SCALE
            /\ r.Overall_Score = 400 * r.pop_score + 25 * r.liquidity_score
                                     + 20 * r.value_score + 150 * r.delta_score
            /\ 0 <= r.Overall_Score /\ r.Overall_Score <= SCORE_ONE

\* C4 witness: two rows are returned with different scores, for an
\* underlying price of 0 and a DTE of 0, one of them with a breakeven far
\* from the underlying price.
C4_Witness ==
    /\ pc = "done"
    /\ rank_in.dte = 0
    /\ rank_in.current_price = 0
    /\ Len(ranked) = 2
    /\ ranked[1].Overall_Score > ranked[2].Overall_Score
    /\ \E r \in RankedRows : r.breakeven_score = 0

\* C6: a returned row whose calculate_pop is undefined reports POP as
\* undefined, not as a probability.
C6_UndefinedPopKept ==
    pc = "done" =>
        \A r \in RankedRows :
            IsNaN(calculate_pop(rank_in.option_type, r.strike, r.lastPrice,
                                rank_in.current_price, r.impliedVolatility, rank_in.dte))
                => IsNaN(r.POP) /\ IsNaN(r.pop_score)

----------------------------------------------------------------------------
\* Claims about calculate_pop (SpecPop)

PopArgsAreNumbers ==
    \A f \in {"strike_price", "premium", "current_price", "implied_volatility", "dte"} :
        ~IsNaN(pop_in[f])

PopPreconditionBroken ==
    \/ pop_in.dte <= 0
    \/ pop_in.implied_volatility <= 0
    \/ pop_in.strike_price <= 0
    \/ pop_in.current_price <= 0

PopGuarded(result) ==
    PopArgsAreNumbers =>
        /\ PopPreconditionBroken => IsNaN(result)
        /\ (~PopPreconditionBroken /\ pop_in.option_type \in {"call", "put"})
               => 0 <= result /\ result <= SCALE

\* C5: calculate_pop, in each of its two copies, returns NaN whenever dte,
\* implied_volatility, strike_price or current_price is not positive, and a
\* probability in [0, 1] when all four are positive and the type is call or put.
C5_PopGuards == pc = "done" => PopGuarded(pop_out) /\ PopGuarded(pop_v1_out)

\* The part of C5 that is about functions/calculations.py alone.
C5_PopGuards_calculations == pc = "done" => PopGuarded(pop_out)

\* C7: for valid arguments and a positive breakeven, the POP of
\* functions/calculations.py is the one computed with the breakeven
\* (strike + premium for a call, strike - premium for a put) as the reference
\* price in ln(current_price / reference).
C7_PopAtBreakeven ==
    (/\ pc = "done"
     /\ PopArgsAreNumbers
     /\ ~PopPreconditionBroken
     /\ pop_in.option_type \in {"call", "put"}
     /\ calculate_breakeven(pop_in.option_type, pop_in.strike_price, pop_in.premium) > 0)
        => pop_out = calculate_pop(pop_in.option_type,
                                   calculate_breakeven(pop_in.option_type,
                                                       pop_in.strike_price, pop_in.premium),
                                   pop_in.premium, pop_in.current_price,
                                   pop_in.implied_volatility, pop_in.dte)

----------------------------------------------------------------------------
\* Claims about the trend aggregators (SpecTrend)

IsMarket == trend_fn = "analyze_market_trend"

Reasons == trend_out.reasons

\* The resolutions the code classified, with their signals, as its rationale
\* reports them.
Classified == {i \in 1..Len(Reasons) : Reasons[i].tag \in {"UP", "DOWN", "Flat"}}

RECURSIVE SumOver(_, _)
SumOver(S, f) ==
    IF S = {} THEN 0
    ELSE LET x == CHOOSE y \in S : TRUE IN f[x] + SumOver(S \ {x}, f)

SignalSum ==
    SumOver(Classified,
            [i \in Classified |-> interval_score(Reasons[i].tag) * weights[Reasons[i].interval]])

WeightSum == SumOver(Classified, [i \in Classified |-> weights[Reasons[i].interval]])

\* C8: the label of analyze_market_trend is Bullish iff
\* S = sum(signal * weight) / sum(weights used) > 0.15, Bearish iff S < -0.15,
\* Neutral otherwise; so it is Bullish with a confidence above 0 whenever
\* every resolution with sufficient data is UP.
C8_NormalisedLabel ==
    (pc = "done" /\ IsMarket /\ Classified # {}) =>
        /\ trend_out.label = "Bullish" <=> 100 * SignalSum > 15 * WeightSum
        /\ trend_out.label = "Bearish" <=> 100 * SignalSum < -(15 * WeightSum)
        /\ (\A i \in Classified : Reasons[i].tag = "UP")
               => trend_out.label = "Bullish" /\ trend_out.confidence > 0

\* A resolution of the input with sufficient data.
MarketUsable(entry) ==
    /\ entry.key \in {"5m", "15m", "30m", "1h"}
    /\ entry.kind = "Series"
    /\ Len(entry.closes) >= 2

ProperUsable(i) == trend_in # <<>> /\ Len(trend_in[i]) >= <<3, 6, 4, 4>>[i]

NoUsableResolution ==
    IF IsMarket THEN \A i \in 1..Len(trend_in) : ~MarketUsable(trend_in[i])
    ELSE \A i \in 1..4 : ~ProperUsable(i)

\* C9: both aggregators return a label in {Bullish, Bearish, Neutral} and a
\* confidence in [0, 100]; the confidence is 0 when no resolution has
\* sufficient data.
C9_VerdictRange ==
    pc = "done" =>
        /\ trend_out.label \in {"Bullish", "Bearish", "Neutral"}
        /\ 0 <= trend_out.confidence /\ trend_out.confidence <= 10000
        /\ NoUsableResolution => trend_out.confidence = 0

\* C9 witness: a Bearish verdict of analyze_market_trend with a confidence of
\* 100, reached from a dict that also holds a resolution without data.
C9_Witness ==
    /\ pc = "done"
    /\ IsMarket
    /\ trend_out.label = "Bearish"
    /\ trend_out.confidence = 10000
    /\ \E i \in 1..Len(trend_in) : ~MarketUsable(trend_in[i])

StringsAbout(name) == {i \in 1..Len(Reasons) : Reasons[i].interval = name}

\* C10: the rationale holds exactly one string for every resolution the
\* aggregator examines: every key of trend_data among 5m/15m/30m/1h for
\* analyze_market_trend, each of daily/hourly/30m/15m for
\* analyze_trend_properly.
C10_OneStringEach ==
    pc = "done" =>
        IF IsMarket
        THEN \A i \in 1..Len(trend_in) :
                 trend_in[i].key \in {"5m", "15m", "30m", "1h"}
                     => Cardinality(StringsAbout(trend_in[i].key)) = 1
        ELSE \A name \in {"Daily", "Hourly", "30min", "15min"} :
                 Cardinality(StringsAbout(name)) = 1

\* The part of C10 that is about analyze_market_trend alone.
C10_OneStringEach_market == IsMarket => C10_OneStringEach

----------------------------------------------------------------------------
\* Claims about analyze_single_option_details (SpecSingle)

SingleReturned == pc = "done" /\ single_out # SingleRaised

\* C11: the recommendation is Strong Buy iff score >= 80 with no red flag;
\* otherwise Buy iff score >= 70 with at most one red flag; otherwise Consider
\* iff score >= 60; otherwise Caution iff score >= 50; otherwise Avoid.  So
\* two or more red flags never give Strong Buy or Buy, and any red flag never
\* gives Strong Buy.
C11_RecommendationTable ==
    SingleReturned =>
        LET score == single_out.score
            flags == Len(single_out.red_flags)
            rec == single_out.recommendation
            strong == score >= 80 /\ flags = 0
            buy == ~strong /\ score >= 70 /\ flags <= 1
            consider == ~strong /\ ~buy /\ score >= 60
            caution == ~strong /\ ~buy /\ ~consider /\ score >= 50
        IN  /\ rec \in {"STRONG BUY", "BUY", "CONSIDER", "CAUTION", "AVOID"}
            /\ rec = "STRONG BUY" <=> strong
            /\ rec = "BUY" <=> buy
            /\ rec = "CONSIDER" <=> consider
            /\ rec = "CAUTION" <=> caution
            /\ flags >= 2 => rec \notin {"STRONG BUY", "BUY"}
            /\ flags >= 1 => rec # "STRONG BUY"

\* C11 witness: a contract with a score of at least 70 and two red flags is
\* returned with Consider.
C11_Witness ==
    /\ SingleReturned
    /\ single_out.score >= 70
    /\ Len(single_out.red_flags) = 2
    /\ single_out.recommendation = "CONSIDER"

\* C12: a contract without a delta is scored by analyze_single_option_details
\* as rank_options_logic scores it, with a delta of 0.5: the result is the one
\* of the same contract with delta 0.5, and it carries no far-out-of-the-money
\* red flag.
C12_MissingDeltaIsHalf ==
    (SingleReturned /\ IsNaN(single_in.row.delta)) =>
        /\ single_out = analyze_single_option_details(
                            [single_in.row EXCEPT !.delta = fillna(single_in.row.delta, 50)],
                            single_in.current_price, single_in.dte, single_in.option_type)
        /\ \A i \in 1..Len(single_out.red_flags) : single_out.red_flags[i] # "Very Low Delta"

\* C13: the spread percentage that analyze_single_option_details judges is
\* the spread_pct of rank_options_logic, (ask - bid) relative to the
\* mid-price; a contract that passes the hard filters is never judged with a
\* spread above 20%.
C13_SameSpreadPct ==
    SingleReturned =>
        LET narrative == single_spread_pct(single_in.row)
            ranking == spread_pct(single_in.row)
        IN  /\ narrative.num * ranking.den = ranking.num * narrative.den
            /\ PassesFilters(single_in.row) => narrative.num <= 20 * narrative.den

\* C14: no public operation raises; in particular
\* analyze_single_option_details returns a result for every option_type.
C14_NeverRaises == pc = "done" => single_out # SingleRaised

----------------------------------------------------------------------------
\* Claims about find_pivots (SpecPivots)

\* The window the specification calls effective: the requested one, plus 1 if
\* even, then at least 3.
SpecWindow ==
    LET w == IF pivot_in.window % 2 = 0 THEN pivot_in.window + 1 ELSE pivot_in.window
    IN  IF w >= 3 THEN w ELSE 3

NothingToPivot ==
    \/ pivot_in.kind # "Series"
    \/ Len(pivot_in.series) = 0
    \/ Len(pivot_in.series) < SpecWindow

TwoEmptyLists == [supports |-> <<>>, resistances |-> <<>>]

\* C15: find_pivots, in each of its two copies, returns two empty lists and
\* does not raise for an empty series, for an argument that is not a series
\* and for a series shorter than the effective window.
C15_EmptyPivots ==
    (pc = "done" /\ NothingToPivot) =>
        pivot_out.calc = TwoEmptyLists /\ pivot_out.v1 = TwoEmptyLists

\* The part of C15 that is about functions/calculations.py alone.
C15_EmptyPivots_calculations ==
    (pc = "done" /\ NothingToPivot) => pivot_out.calc = TwoEmptyLists

PositivePrices ==
    /\ pivot_in.kind = "Series"
    /\ \A i \in 1..Len(pivot_in.series) : pivot_in.series[i] > 0

\* C16: for a series of positive prices the supports are strictly ascending
\* and the resistances strictly descending, and two consecutive levels
\* differ by more than 0.5% of the one accepted first: the lower support, the
\* higher resistance.
C16_LevelsApart ==
    (pc = "done" /\ PositivePrices) =>
        LET sup == pivot_out.calc.supports
            res == pivot_out.calc.resistances
        IN  /\ \A i \in 1..(Len(sup) - 1) :
                   /\ sup[i] < sup[i + 1]
                   /\ 1000 * (sup[i + 1] - sup[i]) > 5 * sup[i]
            /\ \A i \in 1..(Len(res) - 1) :
                   /\ res[i] > res[i + 1]
                   /\ 1000 * (res[i] - res[i + 1]) > 5 * res[i]

\* C16 witness: two supports are returned, the first of them the mean of two
\* raw pivots that were within 0.5% of each other.
C16_Witness ==
    /\ pc = "done"
    /\ PositivePrices
    /\ Len(pivot_out.calc.supports) = 2
    /\ \A i \in 1..Len(pivot_in.series) :
           pivot_out.calc.supports[1] # pivot_in.series[i] * LEVEL_UNIT

----------------------------------------------------------------------------
\* Claims about the indicators (SpecInd)

InputCloses == [i \in 1..Len(ind_in.bars) |-> ind_in.bars[i].Close]

HasClose == ind_in.columns # "no Close"

ValidCloses == Cardinality({i \in 1..Len(InputCloses) : InputCloses[i] # NaN})

InRsiRange(q) == \A i \in 1..Len(q) : 0 <= q[i] /\ q[i] <= 10000

StrictlyRising ==
    /\ ValidCloses = Len(InputCloses)
    /\ \A i \in 1..(Len(InputCloses) - 1) : InputCloses[i] < InputCloses[i + 1]

StrictlyFalling ==
    /\ ValidCloses = Len(InputCloses)
    /\ \A i \in 1..(Len(InputCloses) - 1) : InputCloses[i] > InputCloses[i + 1]

\* C17: every RSI value that calculate_technical_indicators returns, in
\* either copy, is in [0, 100], whatever the closes; past the first 14 bars a
\* strictly rising series has an RSI of 99 or more and a strictly falling one
\* an RSI of 1 or less.
C17_RsiRange ==
    (pc = "done" /\ HasClose) =>
        /\ InRsiRange(ind_out.calc.rsi)
        /\ InRsiRange(ind_out.v1.rsi)
        /\ StrictlyRising =>
               \A i \in 15..Len(InputCloses) :
                   ind_out.calc.rsi[i] >= 9900 /\ ind_out.v1.rsi[i] >= 9900
        /\ StrictlyFalling =>
               \A i \in 15..Len(InputCloses) :
                   ind_out.calc.rsi[i] <= 100 /\ ind_out.v1.rsi[i] <= 100

\* C17 witness: a series with a missing close that rises and then falls has,
\* past the warm-up, an RSI strictly between 0 and 100 in both copies.
C17_Witness ==
    /\ pc = "done"
    /\ HasClose
    /\ ValidCloses = Len(InputCloses) - 1
    /\ Len(InputCloses) >= 17
    /\ ind_out.calc.rsi[17] \in 1..4999
    /\ ind_out.v1.rsi[17] \in 1..4999

Constant ==
    \A i, j \in 1..Len(InputCloses) :
        (InputCloses[i] # NaN /\ InputCloses[j] # NaN) => InputCloses[i] = InputCloses[j]

\* The bars of the warm-up: the bars without close and the bars of the first
\* 13 closes.
WarmUp(i) ==
    \/ InputCloses[i] = NaN
    \/ Cardinality({j \in 1..i : InputCloses[j] # NaN}) < 14

C19_EmptyBelowTwo ==
    (pc = "done" /\ (~HasClose \/ ValidCloses < 2)) =>
        /\ ind_out.calc.rsi = <<>>
        /\ ind_out.calc.macd_line = <<>>
        /\ ind_out.calc.signal_line = <<>>

\* C20: the RSI, MACD and signal series of calculate_technical_indicators and
\* the VWAP column of calculate_vwap have one value per bar of the input
\* frame, also when some or all closes are missing.
C20_SameLength ==
    pc = "done" =>
        /\ Len(ind_out.calc.rsi) = Len(ind_in.bars)
        /\ Len(ind_out.calc.macd_line) = Len(ind_in.bars)
        /\ Len(ind_out.calc.signal_line) = Len(ind_in.bars)
        /\ Len(ind_out.vwap) = Len(ind_in.bars)

\* The part of C20 that is about calculate_vwap alone.
C20_SameLength_vwap == pc = "done" => Len(ind_out.vwap) = Len(ind_in.bars)

\* The typical price (high + low + close) / 3 of bar i, in 1/IND_UNIT.
TypicalPrice(i) ==
    ((ind_in.bars[i].High + ind_in.bars[i].Low + ind_in.bars[i].Close) * IND_UNIT) \div 3

SomeVolume == \E i \in 1..Len(ind_in.bars) : ind_in.bars[i].Volume > 0

AllPriced == \A i \in 1..Len(ind_in.bars) : ind_in.bars[i].Close # NaN

\* What C21 says of one VWAP column.
VwapFilled(vwap) ==
    /\ SomeVolume =>
           /\ \A i \in 1..Len(vwap) : vwap[i] # NaN
           /\ Len(vwap) = 1 => vwap[1] = TypicalPrice(1)
    /\ ~SomeVolume => \A i \in 1..Len(vwap) : vwap[i] = NaN

\* C21: on a frame with its four columns, if a bar has volume > 0 then no
\* VWAP of calculate_vwap is undefined after the fills, in either copy, and
\* a single bar gets its typical price; if no bar has volume, every VWAP is
\* undefined and none is 0.
C21_VwapFilled ==
    (pc = "done" /\ HasClose) =>
        VwapFilled(ind_out.vwap) /\ VwapFilled(ind_out.vwap_v1)

\* C21 for the frames whose bars all carry prices.
C21_VwapFilled_priced == AllPriced => C21_VwapFilled

----------------------------------------------------------------------------
\* Claims about sessions of calls (SpecSession)

\* C22: after any calls of rank_options_logic, calculate_vwap,
\* calculate_technical_indicators and find_pivots, each object of the caller
\* has the rows, columns and values it had before the first call, and no call
\* returned one of the caller's objects.
C22_InputsUntouched ==
    /\ \A id \in Owned : heap[id] = caller[id]
    /\ \A i \in 1..Len(history) : history[i].result_id \notin Owned

\* C22 witness: a table without delta column and with a row without strike
\* was ranked, or a frame was given to calculate_vwap: the function's own
\* object df has the new column, or a row less.
C22_Witness ==
    /\ Len(history) = MaxCalls
    /\ history[1].fn \in {"rank_options_logic", "calculate_vwap"}
    /\ heap["df"] # NoCall
    /\ heap["df"] # heap[history[MaxCalls].arg]
    /\ \E i \in 1..Len(history) :
           /\ history[i].fn = "rank_options_logic"
           /\ ~history[i].given.table.has_delta
           /\ Len(rank_in_place(history[i].given.table).rows) < Len(history[i].given.table.rows)

\* What a call returns when nothing was called before it.
Alone(call) ==
    CASE call.fn = "rank_options_logic" ->
             rank_options_logic(call.given.table.rows, call.given.option_type,
                                SessionPrice, SessionDte)
      [] call.fn = "calculate_vwap" -> {vwap_in_place(call.given)}
      [] call.fn = "calculate_technical_indicators" ->
             {calculate_technical_indicators(call.given)}
      [] call.fn = "find_pivots" ->
             {find_pivots(call.given.kind, call.given.series, call.given.window)}

----------------------------------------------------------------------------
\* More claims about find_pivots (SpecPivots)

\* The raw pivots of a copy in sorted order, in 1/LEVEL_UNIT: min_periods is
\* 1 in functions/calculations.py and the window in TradeBot_V1.py.
RawInOrder(min_periods, is_min) ==
    LET raw == RawPivots(pivot_in.series, SpecWindow, min_periods, is_min)
        asc == SortedAsc({v * LEVEL_UNIT : v \in raw})
    IN  IF is_min THEN asc ELSE Reversed(asc)

\* The running merge as C24 states it: 1000 |c - recent| > 5 base, where base
\* is the most recently accepted level, or the mean of the series when that
\* level is 0.
RECURSIVE RunningMerge(_, _)
RunningMerge(levels, candidates) ==
    IF candidates = <<>> THEN levels
    ELSE LET recent == levels[Len(levels)]
             c == Head(candidates)
             mean == SeriesMean(pivot_in.series)
             apart == IF recent # 0 THEN 1000 * Abs(c - recent) > 5 * recent
                      ELSE 1000 * Abs(c - recent) * mean.count > 5 * mean.sum * LEVEL_UNIT
         IN  RunningMerge(IF apart THEN Append(levels, c)
                          ELSE SubSeq(levels, 1, Len(levels) - 1) \o <<(recent + c) \div 2>>,
                          Tail(candidates))

Merged(raw) == IF raw = <<>> THEN <<>> ELSE RunningMerge(<<Head(raw)>>, Tail(raw))

Enough == pivot_in.kind = "Series" /\ Len(pivot_in.series) >= SpecWindow

\* C24: the supports (resistances) that find_pivots returns, in either copy,
\* are the running merge of its raw supports in ascending order (raw
\* resistances in descending order): the first is accepted, a later one is a
\* new level iff it differs from the latest level by more than 0.5% of it
\* (of the series mean when it is 0), and else the latest level becomes the
\* mean of both.
C24_RunningMerge ==
    (pc = "done" /\ Enough) =>
        /\ pivot_out.calc.supports = Merged(RawInOrder(1, TRUE))
        /\ pivot_out.calc.resistances = Merged(RawInOrder(1, FALSE))
        /\ pivot_out.v1.supports = Merged(RawInOrder(SpecWindow, TRUE))
        /\ pivot_out.v1.resistances = Merged(RawInOrder(SpecWindow, FALSE))

\* C24 witness: raw supports 1000, 1004 and 1020 give the levels 1002 and
\* 1020 in functions/calculations.py; the other copy returns a level too.
C24_Witness ==
    /\ pc = "done"
    /\ Enough
    /\ RawInOrder(1, TRUE) = <<1000 * LEVEL_UNIT, 1004 * LEVEL_UNIT, 1020 * LEVEL_UNIT>>
    /\ pivot_out.calc.supports = <<1002 * LEVEL_UNIT, 1020 * LEVEL_UNIT>>
    /\ pivot_out.v1.supports # <<>>

----------------------------------------------------------------------------
\* More claims about analyze_market_trend (SpecTrend)

\* C25: the denominator of the confidence of analyze_market_trend is the sum
\* of the weights of the resolutions classified UP, DOWN or Flat: the
\* confidence is min(|sum(signal * weight)| / that sum * 100, 100), and 0 when
\* no resolution was classified.
C25_DenominatorOfClassified ==
    (pc = "done" /\ IsMarket /\ trend_in # <<>>) =>
        trend_out.confidence = MarketConfidence(SignalSum, WeightSum)

NumericSeries(entry) ==
    /\ entry.kind = "Series"
    /\ \A i \in 1..Len(entry.closes) : entry.closes[i] # NONNUM

\* C25 for the dicts whose values are all series of numbers.
C25_DenominatorOfClassified_numeric ==
    (IsMarket /\ \A i \in 1..Len(trend_in) : NumericSeries(trend_in[i]))
        => C25_DenominatorOfClassified

\* The values of the part of the window centred on bar i that exists.
ShrunkWindow(i) ==
    LET h == (SpecWindow - 1) \div 2
    IN  {pivot_in.series[j] : j \in Max2(1, i - h)..Min2(Len(pivot_in.series), i + h)} \ {NaN}

\* The raw pivots when every bar, edge bars too, is compared with its shrunk
\* window, in sorted order and in 1/LEVEL_UNIT.
EdgeRaw(is_min) ==
    LET raw == {pivot_in.series[i] : i \in {k \in 1..Len(pivot_in.series) :
                    /\ pivot_in.series[k] # NaN
                    /\ pivot_in.series[k] = IF is_min THEN SetMin(ShrunkWindow(k))
                                            ELSE SetMax(ShrunkWindow(k))}}
        asc == SortedAsc({v * LEVEL_UNIT : v \in raw})
    IN  IF is_min THEN asc ELSE Reversed(asc)

EdgeLevels == [supports |-> Merged(EdgeRaw(TRUE)), resistances |-> Merged(EdgeRaw(FALSE))]

\* C26: in both copies of find_pivots the bars nearer than half a window to
\* an end of the series are evaluated against the part of their window that
\* exists: the levels returned are those of the raw pivots that include the
\* first and the last bar when they are the minimum or maximum of their
\* shrunk window.
C26_EdgeBars ==
    (pc = "done" /\ Enough) =>
        /\ pivot_out.calc = EdgeLevels
        /\ pivot_out.v1 = EdgeLevels

\* C26 for the copy in functions/calculations.py.
C26_EdgeBars_calculations == (pc = "done" /\ Enough) => pivot_out.calc = EdgeLevels

----------------------------------------------------------------------------
\* More claims about rank_options_logic (SpecRank)

\* C27: every row that rank_options_logic returns has bid <= ask and a
\* spread_pct in [0, 20]: a quote with ask < bid is not ranked.
C27_NoCrossedQuote ==
    pc = "done" =>
        \A r \in RankedRows :
            /\ r.bid <= r.ask
            /\ 0 <= r.spread_pct.num
            /\ r.spread_pct.num <= 20 * r.spread_pct.den

----------------------------------------------------------------------------
\* More claims about analyze_single_option_details (SpecSingle)

\* The five section scores of the contract that was analysed.
SectionScores ==
    LET row == single_in.row
        intrinsic == calculate_intrinsic_value(single_in.option_type, row.strike,
                                               single_in.current_price)
        time_value == calculate_time_value(row.lastPrice, intrinsic)
    IN  [pop |-> PopCheck(single_out.pop).points,
         volume |-> VolumeCheck(row.volume).points,
         open_interest |-> OpenInterestCheck(row.openInterest).points,
         spread |-> SpreadCheck(single_spread_pct(row)).points,
         iv |-> IvCheck(row.impliedVolatility).points,
         delta |-> DeltaCheck(single_in.option_type, single_delta(row)).points,
         breakeven |-> BreakevenCheck(single_out.breakeven_pct).points,
         time_value |-> TimeValueCheck(time_value_pct(time_value, row.lastPrice)).points]

\* C28: the total of analyze_single_option_details is in [0, 100] and
\* max_score is 100; the total is the sum of the section scores POP <= 25,
\* liquidity <= 25 (volume <= 10, open interest <= 10, spread <= 5), implied
\* volatility <= 15, delta <= 20 and value <= 15 (breakeven <= 8, time
\* value <= 7), none of them negative.
C28_ScoreWithinHundred ==
    SingleReturned =>
        LET s == SectionScores
        IN  /\ single_out.max_score = 100
            /\ 0 <= single_out.score /\ single_out.score <= single_out.max_score
            /\ single_out.score = s.pop + s.volume + s.open_interest + s.spread + s.iv
                                    + s.delta + s.breakeven + s.time_value
            /\ s.pop \in 0..25
            /\ s.volume \in 0..10 /\ s.open_interest \in 0..10 /\ s.spread \in 0..5
            /\ s.iv \in 0..15
            /\ s.delta \in 0..20
            /\ s.breakeven \in 0..8 /\ s.time_value \in 0..7

\* C28 witness: a contract with the full POP, liquidity, implied volatility
\* and delta scores and a total of 95 or more.
C28_Witness ==
    /\ SingleReturned
    /\ single_out.score >= 95
    /\ SectionScores.pop = 25
    /\ SectionScores.volume + SectionScores.open_interest + SectionScores.spread = 25
    /\ SectionScores.iv = 15
    /\ SectionScores.delta = 20

----------------------------------------------------------------------------
\* Claims about calculate_option_pnl (SpecPnl)

LongLeg == pc = "done" /\ pnl_in.option_type \in {"call", "put"}

\* The P/L of a long leg at a price, in exact cents.
ExactPnl(price) ==
    IF pnl_in.option_type = "call"
    THEN Max2(0, price - pnl_in.strike_price) - pnl_in.premium
    ELSE Max2(0, pnl_in.strike_price - price) - pnl_in.premium

\* One value per price, in the order of the prices, none below -premium.
OnePerPrice ==
    /\ Len(pnl_out.pnl) = Len(pnl_in.underlying_prices)
    /\ \A i \in 1..Len(pnl_out.pnl) :
           /\ pnl_out.pnl[i].c = ExactPnl(pnl_in.underlying_prices[i])
           /\ ~DoubleGt(DoubleSub(Double(0), Double(pnl_in.premium)), pnl_out.pnl[i])
    /\ Len(pnl_out.at_breakeven) = 1
    /\ ~DoubleGt(DoubleSub(Double(0), Double(pnl_in.premium)), pnl_out.at_breakeven[1])

\* C29: for a call or a put with premium >= 0, calculate_option_pnl returns
\* one P/L per underlying price, in the order of the prices, each at least
\* -premium, and the P/L at the price calculate_breakeven returns is
\* exactly 0.
C29_PnlAtBreakevenZero ==
    LongLeg => OnePerPrice /\ pnl_out.at_breakeven[1] = Double(0)

\* C29 with a P/L at breakeven that is 0 to the cent, and within one unit in
\* the last place of the breakeven price.
C29_PnlAtBreakevenZero_cents ==
    LongLeg =>
        /\ OnePerPrice
        /\ pnl_out.at_breakeven[1].c = 0
        /\ Abs(pnl_out.at_breakeven[1].e)
               <= 25 * Pow(2, DoubleBinade(Max2(pnl_in.strike_price + pnl_in.premium, 1), 0) + 8)

----------------------------------------------------------------------------
\* The range of find_pivots (SpecPivots)

SeriesValues == {pivot_in.series[i] : i \in 1..Len(pivot_in.series)} \ {NaN}

InSeriesRange(levels) ==
    \A i \in 1..Len(levels) :
        /\ SeriesValues # {}
        /\ SetMin(SeriesValues) * LEVEL_UNIT <= levels[i]
        /\ levels[i] <= SetMax(SeriesValues) * LEVEL_UNIT

\* C30: every support and every resistance that find_pivots returns lies
\* between the minimum and the maximum of the input series, both included.
C30_LevelsInRange ==
    (pc = "done" /\ pivot_in.kind = "Series") =>
        /\ InSeriesRange(pivot_out.calc.supports)
        /\ InSeriesRange(pivot_out.calc.resistances)
        /\ InSeriesRange(pivot_out.v1.supports)
        /\ InSeriesRange(pivot_out.v1.resistances)

\* C30 witness: a support that is the mean of two raw pivots, and so no value
\* of the series, next to a resistance at the maximum of the series.
C30_Witness ==
    /\ pc = "done"
    /\ pivot_in.kind = "Series"
    /\ pivot_out.calc.supports # <<>>
    /\ pivot_out.calc.resistances # <<>>
    /\ \A v \in SeriesValues : pivot_out.calc.supports[1] # v * LEVEL_UNIT
    /\ pivot_out.calc.resistances[1] = SetMax(SeriesValues) * LEVEL_UNIT

====
